---------------------------- MODULE Spec2Model ----------------------------
(***************************************************************************)
(* Model of the ZKP2P tracker bot (src/bot.js):                            *)
(*   - the transaction reconciliation engine (pendingTransactions,         *)
(*     processingScheduled, scheduleTransactionProcessing,                 *)
(*     processCompletedTransaction and the send...Notification functions); *)
(*   - the connection manager (class ResilientWebSocketProvider) together  *)
(*     with the process-level health check interval.                       *)
(* JavaScript runs handlers to completion between suspension points, so    *)
(* every action below is one synchronous run: from a callback's entry (or  *)
(* the resumption of an await) up to the next await on an external         *)
(* capability.                                                             *)
(***************************************************************************)
EXTENDS Integers, Sequences, FiniteSets, Bags, TLC

(***************************************************************************)
(* Bounds of the model.                                                    *)
(***************************************************************************)
MaxTx == 2
MaxIntent == 2
MaxEvents == 3
MaxAttemptsSeen == 52      \* reconnectAttempts is followed up to this value
MaxCloseTimers == 1        \* pending 2 s timers of the 'close' handler
MaxRestartTimers == 1      \* pending 3 s timers of restart()
MaxRestarts == 1           \* restart() calls suspended in their cleanup
MaxUsers == 1              \* chats besides the broadcast group
MaxRows == 2               \* rows of user_snipers a query sees
MaxRetries == 1            \* 429 answers of the webhook that are followed
MaxReaders == 2            \* rate reads that can be in flight together
MaxClock == 4              \* clock ticks followed
TickMs == 20000            \* ms per clock tick
MaxCalls == 3              \* calls of the tracing state's shutdown()
MaxResets == 1             \* calls of resetHooksForTests()
MaxRequests == 3           \* log lines sent to the log service
MaxFlushes == 2            \* flushLogs() calls that can be awaiting together

TxHashes == 1..MaxTx
IntentHashes == 1..MaxIntent

VARIABLES
  pendingTransactions,       \* Map txHash -> {fulfilled, pruned, rawIntents}
  processingScheduled,       \* Set of txHash
  reconTimers,               \* txHashes whose 10 s setTimeout has not fired yet
  recon,                     \* per txHash: position of processCompletedTransaction
  intentDetails,             \* Map keys (intent hashes) of intentDetails
  orchestratorIntentDetails, \* Map keys of orchestratorIntentDetails
  outcomes,                  \* bag of notifications handed to delivery
  nEvents,                   \* number of logs delivered so far (bounded)
  seen,                      \* per txHash: <<intent, kind>> of the logs received
  fired,                     \* per txHash: its reconciliation timer has fired once
  late,                      \* per txHash: a log was received after the timer fired
  armed                      \* per txHash: its pending setTimeouts, each known by
                             \* the number of the log whose handler armed it

reconVars == <<pendingTransactions, processingScheduled, reconTimers, recon,
               intentDetails, orchestratorIntentDetails, outcomes, nEvents,
               seen, fired, late, armed>>

VARIABLES
  mgr,                       \* one ResilientWebSocketProvider and its timers
  stopped,                   \* scheduleReconnect has hit the attempt cap once
  destroyedMidBackoff        \* destroy() was called with the backoff timer pending

connVars == <<mgr, stopped, destroyedMidBackoff>>

VARIABLES
  chk,                       \* the running checkSniperOpportunity call
  alerts,                    \* chats bot.sendMessage was called for in it
  logged,                    \* chats a sniper_alerts row was inserted for in it
  exchangeRatesCache,        \* "none", or the kind of fresh table cached
  arsRateCache,              \* a fresh ARS rate is cached
  lastQuery                  \* the user_snipers rows the last query saw

snVars == <<chk, alerts, logged, exchangeRatesCache, arsRateCache, lastQuery>>

VARIABLES
  now,                       \* Date.now(), in ms
  rateCache,                 \* per slot: exchangeRatesCache / arsRateCache
  lastFetch,                 \* per slot: lastRatesFetch / lastARSFetch
  rd,                        \* per reader: a getExchangeRates / getARSRate call
  lastOk,                    \* per slot: latest stamp of a fetch that succeeded
  ret                        \* what the read that has just returned gave back

rateVars == <<now, rateCache, lastFetch, rd, lastOk, ret>>

VARIABLES
  undecoded                  \* number of logs delivered that parseLog did not decode

decVars == <<undecoded>>

VARIABLES
  tracingState,              \* "null", "disabled" or "enabled"
  unregisterIsFunction,      \* typeof unregisterInstrumentations === 'function'
  shutdownPromise,           \* "undefined", "pending", "fulfilled" or "rejected"
  unregisterCalls,           \* calls of unregisterInstrumentations()
  providerShutdownCalls,     \* calls of provider.shutdown()
  nCalls,                    \* calls of state.shutdown() so far (bounded)
  waiting,                   \* calls of state.shutdown() that have not settled
  results                    \* outcomes the settled calls got

traceVars == <<tracingState, unregisterIsFunction, shutdownPromise,
               unregisterCalls, providerShutdownCalls, nCalls, waiting, results>>

VARIABLES
  hooksInstalled,            \* the module flag of installShutdownHooks
  listeners,                 \* per event: shutdown functions of its once() listeners
  registered,                \* once() registrations since the last reset
  nResets,                   \* calls of resetHooksForTests so far (bounded)
  hookCall                   \* shutdown argument of the call that has just run

hookVars == <<hooksInstalled, listeners, registered, nResets, hookCall>>

VARIABLES
  BETTERSTACK_SOURCE_TOKEN,  \* a source token is configured
  request,                   \* per request: "unsent", "skipped", "inflight",
                             \* "succeeded" or "failed"
  inflightRequests,          \* the Set of logger.js
  flush                      \* per flushLogs() call: position, requests awaited

logVars == <<BETTERSTACK_SOURCE_TOKEN, request, inflightRequests, flush>>

obsVars == <<traceVars, hookVars, logVars>>

restVars == <<rateVars, decVars, obsVars>>

\* What the rate cache functions leave alone.
notRateVars == <<reconVars, connVars, snVars, decVars, obsVars>>

\* What tracing and its hooks leave alone.
notObsVars == <<reconVars, connVars, snVars, rateVars, decVars, logVars>>

\* What the log shipper leaves alone.
notLogVars == <<reconVars, connVars, snVars, rateVars, decVars, traceVars,
                hookVars>>

vars == <<reconVars, connVars, snVars, restVars>>

(***************************************************************************)
(* JavaScript Map and Set helpers.  A Map is a function whose DOMAIN is    *)
(* its key set; a Set that is iterated is a duplicate-free sequence in     *)
(* insertion order, because iteration over a JS Set visits the elements in *)
(* insertion order and also visits elements added during the iteration.    *)
(***************************************************************************)
MapHas(m, k) == k \in DOMAIN m

MapSet(m, k, v) == [x \in (DOMAIN m) \cup {k} |-> IF x = k THEN v ELSE m[x]]

MapDelete(m, k) == [x \in (DOMAIN m) \ {k} |-> m[x]]

EmptyMap == [x \in {} |-> 0]

SetHas(s, x) == \E n \in 1..Len(s) : s[n] = x

SetAdd(s, x) == IF SetHas(s, x) THEN s ELSE Append(s, x)

(***************************************************************************)
(* rawIntents payloads.  type says which event's fields the payload holds: *)
(* a "fulfilled" payload carries depositId, verifier, owner, to, amount    *)
(* and the fees (escrow) or fundsTransferredTo, amount, isManualRelease    *)
(* (orchestrator); a "pruned" payload carries only depositId/intentHash.   *)
(* A payload written by handleContractEvent has no eventType field.        *)
(***************************************************************************)
RawIntent(eventType, type) == [eventType |-> eventType, type |-> type]

NewTxData == [fulfilled |-> <<>>, pruned |-> <<>>, rawIntents |-> EmptyMap]

NoRaw == RawIntent("none", "none")

Idle == [pc |-> "idle", idx |-> 0, np |-> 0, intent |-> 0, raw |-> NoRaw]

Outcome(txHash, intentHash, kind, raw) ==
  [tx |-> txHash, intent |-> intentHash, kind |-> kind,
   payload |-> raw.type, eventType |-> raw.eventType]

InitRecon ==
  /\ pendingTransactions = EmptyMap
  /\ processingScheduled = {}
  /\ reconTimers = {}
  /\ recon = [t \in TxHashes |-> Idle]
  /\ intentDetails = {}
  /\ orchestratorIntentDetails = {}
  /\ outcomes = EmptyBag
  /\ nEvents = 0
  /\ seen = [t \in TxHashes |-> {}]
  /\ fired = [t \in TxHashes |-> FALSE]
  /\ late = [t \in TxHashes |-> FALSE]
  /\ armed = [t \in TxHashes |-> << >>]

(***************************************************************************)
(* scheduleTransactionProcessing(txHash): a no-op when the hash is already *)
(* in processingScheduled, otherwise the hash is added and a one-shot 10 s *)
(* timer is armed.                                                         *)
(***************************************************************************)
\* Faulty variant: one timer handle shared by all hashes, re-armed on every schedule.
ScheduleTransactionProcessing_SharedTimer(txHash) ==
  IF txHash \in processingScheduled
    THEN UNCHANGED <<processingScheduled, reconTimers, armed>>
    ELSE /\ processingScheduled' = processingScheduled \cup {txHash}
         /\ reconTimers' = {txHash}
         /\ armed' = [t \in TxHashes |-> IF t = txHash THEN <<nEvents + 1>>
                                                       ELSE << >>]

\* Faulty variant: no has() test, every log of the hash arms a timer.
ScheduleTransactionProcessing_Rearm(txHash) ==
  /\ processingScheduled' = processingScheduled \cup {txHash}
  /\ reconTimers' = reconTimers \cup {txHash}
  /\ armed' = [armed EXCEPT ![txHash] = Append(@, nEvents + 1)]

ScheduleTransactionProcessing(txHash) ==
  IF txHash \in processingScheduled
    THEN UNCHANGED <<processingScheduled, reconTimers, armed>>
    ELSE /\ processingScheduled' = processingScheduled \cup {txHash}
         /\ reconTimers' = reconTimers \cup {txHash}
         /\ armed' = [armed EXCEPT ![txHash] = Append(@, nEvents + 1)]

(***************************************************************************)
(* The part the four IntentFulfilled / IntentPruned branches share: get or *)
(* create the entry, add the intent to the set of its kind, overwrite the  *)
(* rawIntents slot of the intent, schedule the reconciliation.             *)
(***************************************************************************)
TxDataOf(txHash) ==
  IF MapHas(pendingTransactions, txHash) THEN pendingTransactions[txHash]
                                         ELSE NewTxData

RecordFulfilled(txData, intentHash, raw) ==
  [txData EXCEPT !.fulfilled = SetAdd(@, intentHash),
                 !.rawIntents = MapSet(@, intentHash, raw)]

RecordPruned(txData, intentHash, raw) ==
  [txData EXCEPT !.pruned = SetAdd(@, intentHash),
                 !.rawIntents = MapSet(@, intentHash, raw)]

LogReceived(txHash, intentHash, kind) ==
  /\ nEvents < MaxEvents
  /\ nEvents' = nEvents + 1
  /\ seen' = [seen EXCEPT ![txHash] = @ \cup {<<intentHash, kind>>}]
  /\ late' = [late EXCEPT ![txHash] = @ \/ fired[txHash]]

\* Faulty variant: the handler hands the fulfilled outcome to delivery itself.
HandleContractIntentFulfilled_Immediate(txHash, intentHash) ==
  /\ LogReceived(txHash, intentHash, "fulfilled")
  /\ pendingTransactions' =
       MapSet(pendingTransactions, txHash,
              RecordFulfilled(TxDataOf(txHash), intentHash,
                              RawIntent("escrow", "fulfilled")))
  /\ ScheduleTransactionProcessing(txHash)
  /\ outcomes' = outcomes (+) SetToBag({Outcome(txHash, intentHash, "fulfilled",
                                                RawIntent("escrow", "fulfilled"))})
  /\ UNCHANGED <<recon, intentDetails, orchestratorIntentDetails, fired,
                 connVars, snVars, restVars>>

\* handleContractEvent, name === 'IntentFulfilled'
HandleContractIntentFulfilled(txHash, intentHash) ==
  /\ LogReceived(txHash, intentHash, "fulfilled")
  /\ pendingTransactions' =
       MapSet(pendingTransactions, txHash,
              RecordFulfilled(TxDataOf(txHash), intentHash,
                              RawIntent("escrow", "fulfilled")))
  /\ ScheduleTransactionProcessing(txHash)
  /\ UNCHANGED <<recon, intentDetails, orchestratorIntentDetails, outcomes, fired,
                 connVars, snVars, restVars>>

\* handleContractEvent, name === 'IntentPruned'
HandleContractIntentPruned(txHash, intentHash) ==
  /\ LogReceived(txHash, intentHash, "pruned")
  /\ pendingTransactions' =
       MapSet(pendingTransactions, txHash,
              RecordPruned(TxDataOf(txHash), intentHash,
                           RawIntent("escrow", "pruned")))
  /\ ScheduleTransactionProcessing(txHash)
  /\ UNCHANGED <<recon, intentDetails, orchestratorIntentDetails, outcomes, fired,
                 connVars, snVars, restVars>>

\* handleOrchestratorEvent, name === 'IntentFulfilled'
HandleOrchestratorIntentFulfilled(txHash, intentHash) ==
  /\ LogReceived(txHash, intentHash, "fulfilled")
  /\ pendingTransactions' =
       MapSet(pendingTransactions, txHash,
              RecordFulfilled(TxDataOf(txHash), intentHash,
                              RawIntent("orchestrator", "fulfilled")))
  /\ ScheduleTransactionProcessing(txHash)
  /\ UNCHANGED <<recon, intentDetails, orchestratorIntentDetails, outcomes, fired,
                 connVars, snVars, restVars>>

\* handleOrchestratorEvent, name === 'IntentPruned'
HandleOrchestratorIntentPruned(txHash, intentHash) ==
  /\ LogReceived(txHash, intentHash, "pruned")
  /\ pendingTransactions' =
       MapSet(pendingTransactions, txHash,
              RecordPruned(TxDataOf(txHash), intentHash,
                           RawIntent("orchestrator", "pruned")))
  /\ ScheduleTransactionProcessing(txHash)
  /\ UNCHANGED <<recon, intentDetails, orchestratorIntentDetails, outcomes, fired,
                 connVars, snVars, restVars>>

(***************************************************************************)
(* IntentSignaled: both handlers store the intent's details synchronously, *)
(* before their first await; the "order created" notification that follows *)
(* touches none of the reconciliation state.  The log's transaction hash   *)
(* is not used for any table.                                              *)
(***************************************************************************)
HandleContractIntentSignaled(intentHash) ==
  /\ nEvents < MaxEvents
  /\ nEvents' = nEvents + 1
  /\ intentDetails' = intentDetails \cup {intentHash}
  /\ UNCHANGED <<pendingTransactions, processingScheduled, reconTimers, recon,
                 orchestratorIntentDetails, outcomes, seen, fired, late, armed,
                 connVars, snVars, restVars>>

HandleOrchestratorIntentSignaled(intentHash) ==
  /\ nEvents < MaxEvents
  /\ nEvents' = nEvents + 1
  /\ orchestratorIntentDetails' = orchestratorIntentDetails \cup {intentHash}
  /\ intentDetails' = intentDetails \cup {intentHash}
  /\ UNCHANGED <<pendingTransactions, processingScheduled, reconTimers, recon,
                 outcomes, seen, fired, late, armed, connVars, snVars, restVars>>

(***************************************************************************)
(* A log the interface does not decode: parseLog returns null (no fragment *)
(* for topics[0]) or throws (the data does not fit the fragment).  On null *)
(* handleContractEvent looks up the subscribers of the deposit id in       *)
(* topics[2] and tells them, handleOrchestratorEvent returns; a throw, of  *)
(* parseLog or of the lookup, ends in the catch block, which only logs.    *)
(* None of these paths writes a table.                                     *)
(***************************************************************************)
\* Faulty variant: the hash of an undecoded log is scheduled for reconciliation.
HandleContractUndecodable_Schedules(txHash, parsed) ==
  /\ nEvents < MaxEvents
  /\ nEvents' = nEvents + 1
  /\ undecoded' = undecoded + 1
  /\ parsed \in {"null", "throws"}
  /\ ScheduleTransactionProcessing(txHash)
  /\ UNCHANGED <<pendingTransactions, recon, intentDetails,
                 orchestratorIntentDetails, outcomes, seen, fired, late,
                 connVars, snVars, rateVars, obsVars>>

\* handleContractEvent, !parsed or parseLog throws
HandleContractUndecodable(txHash, parsed) ==
  /\ nEvents < MaxEvents
  /\ nEvents' = nEvents + 1
  /\ undecoded' = undecoded + 1
  /\ parsed \in {"null", "throws"}
  /\ UNCHANGED <<pendingTransactions, processingScheduled, reconTimers, recon,
                 intentDetails, orchestratorIntentDetails, outcomes, seen,
                 fired, late, armed, connVars, snVars, rateVars, obsVars>>

\* handleOrchestratorEvent, !parsed or parseLog throws
HandleOrchestratorUndecodable(txHash, parsed) ==
  /\ nEvents < MaxEvents
  /\ nEvents' = nEvents + 1
  /\ undecoded' = undecoded + 1
  /\ parsed \in {"null", "throws"}
  /\ UNCHANGED <<pendingTransactions, processingScheduled, reconTimers, recon,
                 intentDetails, orchestratorIntentDetails, outcomes, seen,
                 fired, late, armed, connVars, snVars, rateVars, obsVars>>

(***************************************************************************)
(* The synchronous preamble of the four notification functions, up to the  *)
(* first await (the subscriber lookup).  Each returns what the call does:  *)
(*   "suspend": the message for the outcome is being delivered;            *)
(*   "return" : the function returned at once, nothing is delivered;       *)
(*   "throw"  : the function threw.                                        *)
(***************************************************************************)

\* sendFulfilledNotification: getPlatformName(verifier) calls
\* identifier.toLowerCase(); a payload written by an IntentPruned branch has
\* no verifier, so the call throws a TypeError.
SendFulfilledNotification(raw) ==
  IF raw.type = "fulfilled" THEN "suspend" ELSE "throw"

\* sendPrunedNotification: reads depositId and intentHash, which every
\* payload carries.
SendPrunedNotification(raw) == "suspend"

\* Faulty variant: the orchestrator notifications do not test the stored details.
SendOrchestratorNotification_NoCheck(intentHash, odet) == "suspend"

\* sendOrchestratorFulfilledNotification / sendOrchestratorPrunedNotification:
\* return at once when no details are stored for the intent.
SendOrchestratorNotification(intentHash, odet) ==
  IF intentHash \in odet THEN "suspend" ELSE "return"

SendNotification(kind, intentHash, raw, odet) ==
  IF raw.eventType = "orchestrator"
    THEN SendOrchestratorNotification(intentHash, odet)
    ELSE IF kind = "fulfilled" THEN SendFulfilledNotification(raw)
                               ELSE SendPrunedNotification(raw)

(***************************************************************************)
(* processCompletedTransaction from a given loop position up to its next   *)
(* suspension.  phase/idx is the position of the Set iterator and np the   *)
(* number of elements the iterator of txData.pruned had visited when it    *)
(* was exhausted; the result is the position where the run stops, with the *)
(* outcomes handed to delivery and the intentDetails keys left by then.    *)
(***************************************************************************)
RECURSIVE ProcessFrom(_, _, _, _, _, _, _, _)
ProcessFrom(txHash, txData, phase, idx, np, out, idet, odet) ==
  IF phase = "pruned"
    THEN IF idx > Len(txData.pruned)
           THEN ProcessFrom(txHash, txData, "fulfilled", 1, Len(txData.pruned), out, idet, odet)
           ELSE LET intentHash == txData.pruned[idx] IN
                IF SetHas(txData.fulfilled, intentHash)
                     \/ ~MapHas(txData.rawIntents, intentHash)
                  THEN ProcessFrom(txHash, txData, "pruned", idx + 1, np, out, idet, odet)
                  ELSE LET raw == txData.rawIntents[intentHash]
                           r == SendNotification("pruned", intentHash, raw, odet)
                       IN IF r = "suspend"
                            THEN [pc |-> "sendPruned", idx |-> idx, np |-> np,
                                  intent |-> intentHash, raw |-> raw,
                                  out |-> out (+) SetToBag({Outcome(txHash, intentHash, "cancelled", raw)}),
                                  idet |-> idet]
                            ELSE ProcessFrom(txHash, txData, "pruned", idx + 1, np, out, idet, odet)
    ELSE IF idx > Len(txData.fulfilled)
           THEN [pc |-> "done", idx |-> 0, np |-> np, intent |-> 0, raw |-> NoRaw,
                 out |-> out, idet |-> idet]
           ELSE LET intentHash == txData.fulfilled[idx] IN
                IF ~MapHas(txData.rawIntents, intentHash)
                  THEN ProcessFrom(txHash, txData, "fulfilled", idx + 1, np, out, idet, odet)
                  ELSE LET raw == txData.rawIntents[intentHash]
                           r == SendNotification("fulfilled", intentHash, raw, odet)
                       IN IF r = "suspend"
                            THEN [pc |-> "sendFulfilled", idx |-> idx, np |-> np,
                                  intent |-> intentHash, raw |-> raw,
                                  out |-> out (+) SetToBag({Outcome(txHash, intentHash, "fulfilled", raw)}),
                                  \* sendFulfilledNotification deletes the
                                  \* intentDetails entry before its first await
                                  idet |-> IF raw.eventType = "orchestrator"
                                             THEN idet ELSE idet \ {intentHash}]
                            ELSE IF r = "throw"
                              THEN [pc |-> "rejected", idx |-> idx, np |-> np,
                                    intent |-> intentHash, raw |-> raw,
                                    out |-> out, idet |-> idet]
                              ELSE ProcessFrom(txHash, txData, "fulfilled", idx + 1, np, out, idet, odet)

(***************************************************************************)
(* Where a run of processCompletedTransaction leaves the program: on       *)
(* "done" the entry is deleted and, the await in the timer callback being  *)
(* over, the hash leaves processingScheduled; on "rejected" the promise of *)
(* the timer callback rejects and neither deletion happens.                *)
(***************************************************************************)
Settle(txHash, r) ==
  /\ outcomes' = r.out
  /\ intentDetails' = r.idet
  /\ IF r.pc = "done"
       THEN /\ pendingTransactions' = MapDelete(pendingTransactions, txHash)
            /\ processingScheduled' = processingScheduled \ {txHash}
            /\ recon' = [recon EXCEPT ![txHash] = Idle]
       ELSE /\ UNCHANGED <<pendingTransactions, processingScheduled>>
            /\ recon' = [recon EXCEPT ![txHash] =
                            [pc |-> r.pc, idx |-> r.idx, np |-> r.np,
                             intent |-> r.intent, raw |-> r.raw]]

\* The 10 s timer of scheduleTransactionProcessing fires:
\* processCompletedTransaction(txHash) starts.
ReconTimerFires(txHash) ==
  /\ txHash \in reconTimers
  /\ reconTimers' = IF Len(armed[txHash]) > 1 THEN reconTimers
                    ELSE reconTimers \ {txHash}
  /\ armed' = [armed EXCEPT ![txHash] = Tail(@)]
  /\ fired' = [fired EXCEPT ![txHash] = TRUE]
  /\ IF ~MapHas(pendingTransactions, txHash)
       THEN /\ processingScheduled' = processingScheduled \ {txHash}
            /\ UNCHANGED <<pendingTransactions, recon, outcomes, intentDetails>>
       ELSE Settle(txHash, ProcessFrom(txHash, pendingTransactions[txHash], "pruned", 1, 0,
                                       outcomes, intentDetails, orchestratorIntentDetails))
  /\ UNCHANGED <<orchestratorIntentDetails, nEvents, seen, late, connVars, snVars, restVars>>

(***************************************************************************)
(* A suspended notification function runs to its end: the lookup found no  *)
(* subscriber (subscribers = FALSE) or every delivery step succeeded.  The *)
(* orchestrator functions delete the stored details as their last step,    *)
(* which the early return on an empty subscriber list skips.  The loop of  *)
(* processCompletedTransaction then goes on with the next element.         *)
(***************************************************************************)
NotificationReturns(txHash, subscribers) ==
  /\ recon[txHash].pc \in {"sendPruned", "sendFulfilled"}
  /\ LET p == recon[txHash]
         cleanup == subscribers /\ p.raw.eventType = "orchestrator"
         idet == IF cleanup THEN intentDetails \ {p.intent} ELSE intentDetails
         odet == IF cleanup THEN orchestratorIntentDetails \ {p.intent}
                            ELSE orchestratorIntentDetails
         phase == IF p.pc = "sendPruned" THEN "pruned" ELSE "fulfilled"
     IN /\ orchestratorIntentDetails' = odet
        /\ Settle(txHash, ProcessFrom(txHash, pendingTransactions[txHash], phase,
                                      p.idx + 1, p.np, outcomes, idet, odet))
  /\ UNCHANGED <<reconTimers, nEvents, seen, fired, late, armed, connVars, snVars,
                 restVars>>

(***************************************************************************)
(* A delivery step of a suspended notification function throws (fetch in   *)
(* postToDiscord rejects on a network error; nothing catches it): the      *)
(* promise of processCompletedTransaction rejects.                         *)
(***************************************************************************)
NotificationThrows(txHash) ==
  /\ recon[txHash].pc \in {"sendPruned", "sendFulfilled"}
  /\ recon' = [recon EXCEPT ![txHash].pc = "rejected"]
  /\ UNCHANGED <<pendingTransactions, processingScheduled, reconTimers,
                 intentDetails, orchestratorIntentDetails, outcomes, nEvents,
                 seen, fired, late, armed, connVars, snVars, restVars>>

NextRecon ==
  \/ \E t \in TxHashes, i \in IntentHashes : HandleContractIntentFulfilled(t, i)
  \/ \E t \in TxHashes, i \in IntentHashes : HandleContractIntentPruned(t, i)
  \/ \E t \in TxHashes, i \in IntentHashes : HandleOrchestratorIntentFulfilled(t, i)
  \/ \E t \in TxHashes, i \in IntentHashes : HandleOrchestratorIntentPruned(t, i)
  \/ \E i \in IntentHashes : HandleContractIntentSignaled(i)
  \/ \E i \in IntentHashes : HandleOrchestratorIntentSignaled(i)
  \/ \E t \in TxHashes, parsed \in {"null", "throws"} :
       HandleContractUndecodable(t, parsed)
  \/ \E t \in TxHashes, parsed \in {"null", "throws"} :
       HandleOrchestratorUndecodable(t, parsed)
  \/ \E t \in TxHashes : ReconTimerFires(t)
  \/ \E t \in TxHashes, subscribers \in BOOLEAN : NotificationReturns(t, subscribers)
  \/ \E t \in TxHashes : NotificationThrows(t)

(***************************************************************************)
(* Reading the outcome log.                                                *)
(***************************************************************************)
RECURSIVE BagSum(_, _)
BagSum(b, S) ==
  IF S = {} THEN 0
  ELSE LET o == CHOOSE x \in S : TRUE IN b[o] + BagSum(b, S \ {o})

OutcomesOf(b, txHash) == {o \in DOMAIN b : o.tx = txHash}

Emitted(txHash, intentHash, kind) ==
  BagSum(outcomes, {o \in OutcomesOf(outcomes, txHash) :
                      o.intent = intentHash /\ o.kind = kind})

IntentsSeen(txHash) == {e[1] : e \in seen[txHash]}

\* The reconciliation of the events received before the timer fired is over
\* (it ran to its end or its promise rejected) and no later log came in.
FirstBatchOver(txHash) ==
  /\ fired[txHash]
  /\ ~late[txHash]
  /\ txHash \notin reconTimers
  /\ recon[txHash].pc \in {"idle", "rejected"}

\* C1: when the reconciliation of the logs that arrived before the timer
\* fired is over, every distinct intent of those logs has exactly one outcome
\* (fulfilled or cancelled): none missing, none duplicated.
C1_ExactlyOneOutcome ==
  \A t \in TxHashes :
    FirstBatchOver(t) =>
      \A i \in IntentsSeen(t) :
        Emitted(t, i, "fulfilled") + Emitted(t, i, "cancelled") = 1

\* C2: when an intent has both a fulfilled and a pruned log under one hash
\* (either order), the reconciliation emits the fulfilled outcome for it and
\* no cancelled outcome.
C2_FulfilledWins ==
  \A t \in TxHashes :
    FirstBatchOver(t) =>
      \A i \in IntentHashes :
        (<<i, "fulfilled">> \in seen[t] /\ <<i, "pruned">> \in seen[t]) =>
          (Emitted(t, i, "fulfilled") = 1 /\ Emitted(t, i, "cancelled") = 0)

\* C3: over a whole execution no (transactionHash, intentId) pair is given
\* both a cancelled and a fulfilled outcome.
C3_NeverBothOutcomes ==
  \A t \in TxHashes, i \in IntentHashes :
    ~(Emitted(t, i, "fulfilled") > 0 /\ Emitted(t, i, "cancelled") > 0)

IntentLogHandled(txHash) ==
  \E i \in IntentHashes :
    \/ HandleContractIntentFulfilled(txHash, i)
    \/ HandleContractIntentPruned(txHash, i)
    \/ HandleOrchestratorIntentFulfilled(txHash, i)
    \/ HandleOrchestratorIntentPruned(txHash, i)

\* C4: a log for a hash that arrives after the hash's timer has fired (also
\* while the first reconciliation is suspended in a delivery) is never
\* silently dropped: a reconciliation never deletes an entry that holds a
\* pruned intent which its loop over txData.pruned did not visit and which no
\* fulfilled log overrides.
C4_LateLogNeverDropped ==
  [][\A t \in TxHashes :
       (recon[t].pc = "sendFulfilled" /\ ~MapHas(pendingTransactions', t)) =>
         \A k \in (recon[t].np + 1)..Len(pendingTransactions[t].pruned) :
           SetHas(pendingTransactions[t].fulfilled, pendingTransactions[t].pruned[k])]_vars

\* C5: once the timer of a hash has fired the reconciliation runs to the end:
\* it never stops with the entry still in the pending table or the hash still
\* in the scheduled set.
C5_EntryDestroyed ==
  \A t \in TxHashes :
    recon[t].pc = "rejected" =>
      (~MapHas(pendingTransactions, t) /\ t \notin processingScheduled)

(***************************************************************************)
(* C6: the per-hash state, and the steps that belong to one hash.          *)
(***************************************************************************)
TxState(txHash) ==
  <<MapHas(pendingTransactions, txHash), TxDataOf(txHash),
    txHash \in processingScheduled, txHash \in reconTimers, recon[txHash],
    [o \in OutcomesOf(outcomes, txHash) |-> outcomes[o]]>>

StepOf(txHash) ==
  \/ IntentLogHandled(txHash)
  \/ ReconTimerFires(txHash)
  \/ \E subscribers \in BOOLEAN : NotificationReturns(txHash, subscribers)
  \/ NotificationThrows(txHash)

NoLogNoEntry ==
  \A t \in TxHashes :
    seen[t] = {} =>
      /\ ~MapHas(pendingTransactions, t)
      /\ t \notin processingScheduled
      /\ t \notin reconTimers
      /\ OutcomesOf(outcomes, t) = {}

\* C6: a step for hash A (a log handled, its timer firing, its notifications)
\* leaves the pending entry, the scheduled flag, the timer and the outcomes of
\* every other hash B as they were; a hash no IntentFulfilled/IntentPruned log
\* was received for has no entry, no timer and no outcome.
C6_HashesIndependent ==
  /\ []NoLogNoEntry
  /\ [][\A a \in TxHashes, b \in TxHashes :
          (a # b /\ StepOf(a)) => TxState(b)' = TxState(b)]_vars

\* C6 witness: both hashes have an entry with different contents, one with
\* its timer pending and the other in a suspended reconciliation, while an
\* outcome exists for only one of them.
C6_Witness ==
  \E a \in TxHashes, b \in TxHashes :
    /\ a # b
    /\ MapHas(pendingTransactions, a) /\ MapHas(pendingTransactions, b)
    /\ pendingTransactions[a] # pendingTransactions[b]
    /\ a \in reconTimers /\ b \notin reconTimers
    /\ OutcomesOf(outcomes, a) = {} /\ OutcomesOf(outcomes, b) # {}

(***************************************************************************)
(*                 Connection manager: ResilientWebSocketProvider          *)
(*                                                                         *)
(* mgr holds the fields of one instance and what the event loop holds for  *)
(* it: which of its timers are pending and where its suspended async calls *)
(* stand.  A transport is the WebSocketProvider object with its socket:    *)
(*   ws    readyState of provider._websocket (connecting, open, closed)    *)
(*   wsL   the close/error/ping/pong/message listeners are attached        *)
(*   errL  the provider 'error' listener is attached                       *)
(*   logL  the contract log listener is attached                           *)
(*   dead  provider.destroy() has been called                              *)
(* Times are ages: age is Date.now() - lastActivityTime.  Delays are kept  *)
(* in 1/256 ms so that 1000 * 1.5^n is an integer wherever it is below the *)
(* 30000 ms cap.                                                           *)
(***************************************************************************)
maxReconnectDelay == 30000
maxReconnectAttempts == 50
WatchdogMs == 90000
ActiveWithinMs == 120000

Ms(x) == x * 256

NoProvider == [exists |-> FALSE, ws |-> "closed", wsL |-> FALSE, errL |-> FALSE,
               logL |-> FALSE, dead |-> FALSE]

\* new WebSocketProvider(url, ...): the socket starts connecting
NewWebSocketProvider == [exists |-> TRUE, ws |-> "connecting", wsL |-> FALSE,
                         errL |-> FALSE, logL |-> FALSE, dead |-> FALSE]

\* The ages that tell the comparisons of the code apart:
\* age > 90000 (keep-alive watchdog) and age < 120000 (isConnected).
Ages == {0, WatchdogMs, WatchdogMs + 1, ActiveWithinMs}

Min(a, b) == IF a <= b THEN a ELSE b

(***************************************************************************)
(* x * Math.pow(1.5, n).  The product only grows with n, so once it is     *)
(* past the cap the remaining factors are not applied: the caller takes    *)
(* the minimum with the cap, and the value stays inside the integer range. *)
(***************************************************************************)
RECURSIVE TimesPow15(_, _)
TimesPow15(x, n) ==
  IF n = 0 \/ x > Ms(maxReconnectDelay) THEN x
  ELSE TimesPow15((x * 3) \div 2, n - 1)

\* Faulty variant: the multiplier is 2 instead of 1.5.
RECURSIVE TimesPow2(_, _)
TimesPow2(x, n) ==
  IF n = 0 \/ x > Ms(maxReconnectDelay) THEN x
  ELSE TimesPow2(x * 2, n - 1)

ReconnectDelayFor_Doubling(reconnectDelay, attempts) ==
  Min(TimesPow2(Ms(reconnectDelay), attempts), Ms(maxReconnectDelay))

\* const delay = Math.min(reconnectDelay * Math.pow(1.5, reconnectAttempts),
\*                        maxReconnectDelay)
ReconnectDelayFor(reconnectDelay, attempts) ==
  Min(TimesPow15(Ms(reconnectDelay), attempts), Ms(maxReconnectDelay))

\* State after the constructor's field initialisers, before this.connect().
Constructed ==
  [reconnectDelay |-> 1000,
   reconnectAttempts |-> 0,
   isConnecting |-> FALSE,
   isDestroyed |-> FALSE,
   provider |-> NoProvider,
   reconnectTimer |-> FALSE,    \* this.reconnectTimer is not null
   keepAliveTimer |-> FALSE,    \* this.keepAliveTimer is set (interval armed)
   age |-> 0,                   \* Date.now() - this.lastActivityTime
   reconnectArmed |-> FALSE,    \* the backoff setTimeout is pending
   reconnectTimers |-> 0,       \* pending backoff timers, cancelled ones excluded
   reconnectMs |-> 0,           \* its delay, in 1/256 ms
   reconnectFor |-> 0,          \* the attempt number it was scheduled for
   closeTimers |-> 0,           \* pending 2 s timers of the 'close' handler
   restartTimers |-> 0,         \* pending 3 s timers of restart()
   restartsAwaiting |-> 0,      \* restart() calls suspended in await cleanup()
   connectPc |-> "idle",        \* connect(): idle, cleanup (await), handshake (await)
   destroyPc |-> "idle",        \* destroy(): idle, cleanup (await), done
   orphan |-> NoProvider]       \* live transport this.provider no longer holds

StopKeepAlive(m) == [m EXCEPT !.keepAliveTimer = FALSE]

StartKeepAlive(m) == [StopKeepAlive(m) EXCEPT !.keepAliveTimer = TRUE]

(***************************************************************************)
(* cleanup(), the part before its await: keep-alive stopped, all listeners *)
(* removed, the socket closed, provider.destroy() called.  this.provider   *)
(* keeps referring to the torn-down object.                                *)
(***************************************************************************)
Cleanup(m) ==
  IF m.provider.exists
    THEN [StopKeepAlive(m) EXCEPT !.provider =
            [exists |-> TRUE, ws |-> "closed", wsL |-> FALSE, errL |-> FALSE,
             logL |-> FALSE, dead |-> TRUE]]
    ELSE m

\* clearTimeout(this.reconnectTimer) as scheduleReconnect does it: the field
\* keeps the stale handle.
ClearReconnectTimeout(m) ==
  IF m.reconnectTimer
    THEN [m EXCEPT !.reconnectArmed = FALSE, !.reconnectMs = 0, !.reconnectFor = 0,
                   !.reconnectTimers = IF m.reconnectArmed THEN @ - 1 ELSE @]
    ELSE m

\* restart() and destroy() also reset the field to null.
ClearReconnectTimer(m) ==
  IF m.reconnectTimer
    THEN [m EXCEPT !.reconnectArmed = FALSE, !.reconnectMs = 0, !.reconnectFor = 0,
                   !.reconnectTimers = IF m.reconnectArmed THEN @ - 1 ELSE @,
                   !.reconnectTimer = FALSE]
    ELSE m

\* scheduleReconnect() without the return at the attempt cap.
ScheduleReconnect_NoCap(m) ==
  IF m.isConnecting \/ m.isDestroyed THEN m
  ELSE LET m1 == StopKeepAlive(ClearReconnectTimeout(m))
           m2 == [m1 EXCEPT !.reconnectAttempts = @ + 1]
       IN [m2 EXCEPT !.reconnectTimer = TRUE,
                     !.reconnectArmed = TRUE,
                     !.reconnectTimers = @ + 1,
                     !.reconnectFor = m2.reconnectAttempts,
                     !.reconnectMs = ReconnectDelayFor(m2.reconnectDelay,
                                                       m2.reconnectAttempts)]

\* Faulty variant: scheduleReconnect() that does not clear the pending timer.
ScheduleReconnect_NoClear(m) ==
  IF m.isConnecting \/ m.isDestroyed THEN m
  ELSE LET m1 == StopKeepAlive(m)
           m2 == [m1 EXCEPT !.reconnectAttempts = @ + 1]
       IN IF m2.reconnectAttempts > maxReconnectAttempts
            THEN m2
            ELSE [m2 EXCEPT !.reconnectTimer = TRUE,
                            !.reconnectArmed = TRUE,
                            !.reconnectTimers = @ + 1,
                            !.reconnectFor = m2.reconnectAttempts,
                            !.reconnectMs = ReconnectDelayFor(m2.reconnectDelay,
                                                              m2.reconnectAttempts)]

ScheduleReconnect(m) ==
  IF m.isConnecting \/ m.isDestroyed THEN m
  ELSE LET m1 == StopKeepAlive(ClearReconnectTimeout(m))
           m2 == [m1 EXCEPT !.reconnectAttempts = @ + 1]
       IN IF m2.reconnectAttempts > maxReconnectAttempts
            THEN m2
            ELSE [m2 EXCEPT !.reconnectTimer = TRUE,
                            !.reconnectArmed = TRUE,
                            !.reconnectTimers = @ + 1,
                            !.reconnectFor = m2.reconnectAttempts,
                            !.reconnectMs = ReconnectDelayFor(m2.reconnectDelay,
                                                              m2.reconnectAttempts)]

SetupEventListeners(m) ==
  IF ~m.provider.exists \/ m.isDestroyed THEN m
  ELSE [m EXCEPT !.provider.wsL = TRUE, !.provider.errL = TRUE]

\* provider.on(filter, listener) inside try/catch; onThrows: it throws.
SetupContractListening(m, onThrows) ==
  IF ~m.provider.exists \/ m.isDestroyed THEN m
  ELSE IF onThrows
         THEN IF ~m.isDestroyed THEN ScheduleReconnect(m) ELSE m
         ELSE [m EXCEPT !.provider.logL = TRUE]

\* Faulty variant: connect() without its catch block, the exception leaves it.
ConnectFailed_Propagates(m) == [m EXCEPT !.connectPc = "idle"]

\* The catch block of connect().
ConnectFailed(m) ==
  LET m1 == [m EXCEPT !.isConnecting = FALSE, !.connectPc = "idle"]
  IN IF ~m1.isDestroyed THEN ScheduleReconnect(m1) ELSE m1

\* connect() from `new WebSocketProvider` to its await of the handshake;
\* ctorThrows: the constructor throws.
ConnectOpen(m, ctorThrows) ==
  IF ctorThrows THEN ConnectFailed(m)
  ELSE [SetupEventListeners([m EXCEPT !.provider = NewWebSocketProvider])
          EXCEPT !.connectPc = "handshake"]

\* Faulty variant: connect() without its entry test.
Connect_NoGuard(m, ctorThrows) ==
  LET m1 == [m EXCEPT !.isConnecting = TRUE]
  IN IF m1.provider.exists
       THEN [Cleanup(m1) EXCEPT !.connectPc = "cleanup"]
       ELSE ConnectOpen(m1, ctorThrows)

\* Faulty variant: connect() that does not tear the previous transport down.
Connect_NoCleanup(m, ctorThrows) ==
  IF m.isConnecting \/ m.isDestroyed THEN m
  ELSE ConnectOpen([m EXCEPT !.isConnecting = TRUE], ctorThrows)

\* connect() from its entry to its first await.
Connect(m, ctorThrows) ==
  IF m.isConnecting \/ m.isDestroyed THEN m
  ELSE LET m1 == [m EXCEPT !.isConnecting = TRUE]
       IN IF m1.provider.exists
            THEN [Cleanup(m1) EXCEPT !.connectPc = "cleanup"]
            ELSE ConnectOpen(m1, ctorThrows)

\* restart() up to its await of cleanup().
Restart(m) ==
  LET m1 == [m EXCEPT !.reconnectAttempts = 0, !.reconnectDelay = 1000]
      m2 == Cleanup(StopKeepAlive(ClearReconnectTimer(m1)))
  IN [m2 EXCEPT !.restartsAwaiting = @ + 1]

\* destroy() that leaves the pending backoff timer alone.
Destroy_KeepsTimer(m) ==
  LET m1 == [m EXCEPT !.isDestroyed = TRUE]
      m2 == Cleanup(StopKeepAlive(m1))
  IN [m2 EXCEPT !.destroyPc = "cleanup"]

\* destroy() up to its await of cleanup().
Destroy(m) ==
  LET m1 == [m EXCEPT !.isDestroyed = TRUE]
      m2 == Cleanup(StopKeepAlive(ClearReconnectTimer(m1)))
  IN [m2 EXCEPT !.destroyPc = "cleanup"]

\* Faulty variant: activity exactly 120 s old still counts.
IsConnected_Inclusive(m) ==
  /\ m.provider.exists
  /\ m.provider.ws = "open"
  /\ m.age <= ActiveWithinMs

\* get isConnected()
IsConnected(m) ==
  /\ m.provider.exists
  /\ m.provider.ws = "open"
  /\ m.age < ActiveWithinMs

InBounds(m) ==
  /\ m.reconnectAttempts <= MaxAttemptsSeen
  /\ m.closeTimers <= MaxCloseTimers
  /\ m.restartTimers <= MaxRestartTimers
  /\ m.restartsAwaiting <= MaxRestarts

\* The transport whose handshake a suspended connect() awaits.
Awaited(m) == IF m.orphan.exists THEN m.orphan ELSE m.provider

\* The constructor ends with this.connect().
InitConn ==
  /\ \E ctorThrows \in BOOLEAN : mgr = Connect(Constructed, ctorThrows)
  /\ stopped = FALSE
  /\ destroyedMidBackoff = FALSE

Step(m) ==
  /\ InBounds(m)
  /\ mgr' = m
  /\ stopped' = (stopped \/ m.reconnectAttempts > maxReconnectAttempts)
  /\ UNCHANGED <<destroyedMidBackoff, reconVars, snVars, restVars>>

\* The backoff timer of scheduleReconnect fires.
ReconnectTimerFires(ctorThrows) ==
  /\ mgr.reconnectArmed
  /\ LET m1 == [mgr EXCEPT !.reconnectArmed = FALSE, !.reconnectMs = 0,
                           !.reconnectFor = 0, !.reconnectTimers = @ - 1]
     IN Step(IF ~m1.isDestroyed THEN Connect(m1, ctorThrows) ELSE m1)

\* The 3 s timer of restart() fires.
RestartTimerFires(ctorThrows) ==
  /\ mgr.restartTimers > 0
  /\ LET m1 == [mgr EXCEPT !.restartTimers = @ - 1]
     IN Step(IF ~m1.isDestroyed THEN Connect(m1, ctorThrows) ELSE m1)

\* connect() resumes after `await this.cleanup()`.
ConnectResumes(ctorThrows) ==
  /\ mgr.connectPc = "cleanup"
  /\ Step(ConnectOpen(mgr, ctorThrows))

\* Faulty variant: a successful handshake that keeps the attempt counter.
HandshakeSucceeds_NoReset(onThrows) ==
  /\ mgr.connectPc = "handshake"
  /\ ~Awaited(mgr).dead
  /\ Awaited(mgr).ws # "closed"
  /\ LET m1 == IF mgr.orphan.exists THEN [mgr EXCEPT !.orphan.ws = "open"]
                                    ELSE [mgr EXCEPT !.provider.ws = "open"]
         m2 == [m1 EXCEPT !.age = 0, !.isConnecting = FALSE,
                          !.connectPc = "idle"]
     IN Step(StartKeepAlive(SetupContractListening(m2, onThrows)))

\* connect() resumes after the handshake: provider.getNetwork() resolved
\* before the 15 s timeout.
HandshakeSucceeds(onThrows) ==
  /\ mgr.connectPc = "handshake"
  /\ ~Awaited(mgr).dead
  /\ Awaited(mgr).ws # "closed"
  /\ LET m1 == IF mgr.orphan.exists THEN [mgr EXCEPT !.orphan.ws = "open"]
                                    ELSE [mgr EXCEPT !.provider.ws = "open"]
         m2 == [m1 EXCEPT !.age = 0, !.reconnectAttempts = 0,
                          !.reconnectDelay = 1000, !.isConnecting = FALSE,
                          !.connectPc = "idle"]
     IN Step(StartKeepAlive(SetupContractListening(m2, onThrows)))

\* connect() resumes in its catch block: the handshake rejected or the 15 s
\* timeout won the race.
HandshakeFails ==
  /\ mgr.connectPc = "handshake"
  /\ Step(ConnectFailed(mgr))

\* The socket of the current transport opens.
WsOpens ==
  /\ mgr.provider.exists /\ ~mgr.provider.dead /\ mgr.provider.ws = "connecting"
  /\ Step([mgr EXCEPT !.provider.ws = "open"])

\* The socket closes (remote close, network drop); the 'close' listener runs
\* when attached.
WsCloses ==
  /\ mgr.provider.exists /\ ~mgr.provider.dead /\ mgr.provider.ws # "closed"
  /\ LET m1 == [mgr EXCEPT !.provider.ws = "closed"]
         m2 == StopKeepAlive(m1)
     IN Step(IF ~m1.provider.wsL THEN m1
             ELSE IF ~m2.isDestroyed THEN [m2 EXCEPT !.closeTimers = @ + 1]
                  ELSE m2)

\* The 2 s timer set by the 'close' listener fires.
CloseTimerFires ==
  /\ mgr.closeTimers > 0
  /\ LET m1 == [mgr EXCEPT !.closeTimers = @ - 1]
     IN Step(IF ~m1.isDestroyed THEN ScheduleReconnect(m1) ELSE m1)

\* The socket emits 'error'.
WsError ==
  /\ mgr.provider.exists /\ mgr.provider.wsL /\ mgr.provider.ws # "closed"
  /\ LET m1 == StopKeepAlive(mgr)
     IN Step(IF ~m1.isDestroyed THEN ScheduleReconnect(m1) ELSE m1)

\* The provider emits 'error'.
ProviderError ==
  /\ mgr.provider.exists /\ mgr.provider.errL
  /\ Step(IF ~mgr.isDestroyed THEN ScheduleReconnect(mgr) ELSE mgr)

\* The socket emits 'ping', 'pong' or 'message'.
WsActivity ==
  /\ mgr.provider.exists /\ mgr.provider.wsL /\ mgr.provider.ws = "open"
  /\ Step([mgr EXCEPT !.age = 0])

\* A contract log is delivered to the listener of setupContractListening,
\* which passes it to eventHandler.
LogDelivered ==
  /\ mgr.provider.exists /\ mgr.provider.logL /\ mgr.provider.ws = "open"
  /\ Step([mgr EXCEPT !.age = 0])

\* Faulty variant: the watchdog also trips at exactly 90 s of silence.
KeepAliveTick_Inclusive(pingThrows) ==
  /\ mgr.keepAliveTimer
  /\ Step(IF mgr.provider.exists /\ mgr.provider.ws = "open"
            THEN IF pingThrows \/ mgr.age >= WatchdogMs
                   THEN ScheduleReconnect(mgr) ELSE mgr
            ELSE mgr)

\* A tick of the 30 s keep-alive interval; pingThrows: ping() throws.
KeepAliveTick(pingThrows) ==
  /\ mgr.keepAliveTimer
  /\ Step(IF mgr.provider.exists /\ mgr.provider.ws = "open"
            THEN IF pingThrows \/ mgr.age > WatchdogMs
                   THEN ScheduleReconnect(mgr) ELSE mgr
            ELSE mgr)

\* Time passes without activity.
TimePasses ==
  \E a \in Ages : a > mgr.age /\ Step([mgr EXCEPT !.age = a])

\* A tick of the 120 s health check interval.
HealthCheck ==
  /\ ~IsConnected(mgr)
  /\ Step(Restart(mgr))

\* restart() called by the uncaughtException / unhandledRejection handlers.
\* connectionIssue: the error message includes 'WebSocket' or 'ECONNRESET'.
RestartCalled ==
  \E connectionIssue \in BOOLEAN :
    /\ connectionIssue
    /\ Step(Restart(mgr))

\* restart() resumes after `await this.cleanup()` and sets its 3 s timer.
RestartResumes ==
  /\ mgr.restartsAwaiting > 0
  /\ Step([mgr EXCEPT !.restartsAwaiting = @ - 1, !.restartTimers = @ + 1])

\* destroy() is called (gracefulShutdown).
DestroyCalled ==
  /\ mgr.destroyPc = "idle"
  /\ mgr' = Destroy(mgr)
  /\ destroyedMidBackoff' = mgr.reconnectArmed
  /\ UNCHANGED <<stopped, reconVars, snVars, restVars>>

\* destroy() resumes after `await this.cleanup()`: this.provider = null.  A
\* transport that a connect() put there in the meantime is left as it is.
DestroyResumes ==
  /\ mgr.destroyPc = "cleanup"
  /\ Step([mgr EXCEPT !.destroyPc = "done",
                      !.provider = NoProvider,
                      !.orphan = IF mgr.provider.exists /\ ~mgr.provider.dead
                                   THEN mgr.provider ELSE @])

NextConn ==
  \/ \E ctorThrows \in BOOLEAN : ReconnectTimerFires(ctorThrows)
  \/ \E ctorThrows \in BOOLEAN : RestartTimerFires(ctorThrows)
  \/ \E ctorThrows \in BOOLEAN : ConnectResumes(ctorThrows)
  \/ \E onThrows \in BOOLEAN : HandshakeSucceeds(onThrows)
  \/ HandshakeFails
  \/ WsOpens
  \/ WsCloses
  \/ CloseTimerFires
  \/ WsError
  \/ ProviderError
  \/ WsActivity
  \/ LogDelivered
  \/ \E pingThrows \in BOOLEAN : KeepAliveTick(pingThrows)
  \/ TimePasses
  \/ HealthCheck
  \/ RestartCalled
  \/ RestartResumes
  \/ DestroyCalled
  \/ DestroyResumes

(***************************************************************************)
(* The sniper check: checkSniperOpportunity and the store and rate lookups *)
(* it awaits.  One call is followed from await to await; what the external *)
(* store and the rate services answer is an input of the step that resumes.*)
(* Rates are in hundredths of a currency unit per USD, thresholds in       *)
(* hundredths of a percent.                                                *)
(***************************************************************************)
ZKP2P_GROUP_ID == 0
Users == 1..MaxUsers
Chats == Users \cup {ZKP2P_GROUP_ID}

\* currencyHashToCode[currencyHash.toLowerCase()]; "none": no entry
CurrencyCodes == {"USD", "EUR", "ARS", "none"}
PlatformNames == {"venmo", "wise"}
DepositRates == {95, 100, 190}

\* Rows of user_snipers.  platform "null" is the all-platforms subscription;
\* recent: created_at is within the last 30 days.
Rows ==
  [chat_id : Chats, currency : {"EUR", "USD"}, platform : {"null", "venmo"},
   is_active : BOOLEAN, recent : BOOLEAN]

RECURSIVE RowSets(_)
RowSets(n) ==
  IF n = 0 THEN {{}}
  ELSE LET S == RowSets(n - 1) IN S \cup {t \cup {r} : t \in S, r \in Rows}

\* user_settings.threshold of a chat; NoThreshold: no active row
NoThreshold == -1
StoredThresholds == {NoThreshold, 0, 500, 501}
DefaultThreshold == 20

\* USD is hardcoded to 1.0; the rate services answer 2.0 for EUR and ARS.
UsdMarketRate == 100
FetchedMarketRate == 200

NoCheck ==
  [pc |-> "idle", currencyCode |-> "none", platformName |-> "venmo",
   depositRate |-> 0, marketRate |-> 0, interestedUsers |-> << >>, idx |-> 0,
   storeds |-> << >>, thresholds |-> << >>, fetches |-> 0, retries |-> 0,
   queryError |-> FALSE]

InitSniper ==
  /\ chk = NoCheck
  /\ alerts = << >>
  /\ logged = << >>
  /\ exchangeRatesCache = "none"
  /\ arsRateCache = FALSE
  /\ lastQuery = {}

\* percentageDiff >= userThreshold with
\* percentageDiff = ((marketRate - depositRate) / marketRate) * 100,
\* over the rationals (marketRate > 0).
PercentageDiffAtLeast(marketRate, depositRate, userThreshold) ==
  (marketRate - depositRate) * 100 * 100 >= userThreshold * marketRate

\* The query of getUsersWithSniper: currency, is_active, created_at within
\* 30 days, and platform equal or null.
SniperQuery(rows, currency, platform) ==
  {r \in rows : /\ r.currency = currency
                /\ r.is_active
                /\ r.recent
                /\ (r.platform = platform \/ r.platform = "null")}

\* The orders in which the keys of userMap can come out: one entry per
\* chat_id, in the order the rows came back.
Orders(S) ==
  {q \in UNION {[1..n -> S] : n \in {Cardinality(S)}} :
     \A i, j \in DOMAIN q : i # j => q[i] # q[j]}

SeqHas(q, x) == \E i \in DOMAIN q : q[i] = x

\* return data?.threshold || 0.2
GetUserThreshold(data) ==
  IF data = NoThreshold \/ data = 0 THEN DefaultThreshold ELSE data

SniperStep(c) ==
  /\ chk' = c
  /\ UNCHANGED <<reconVars, connVars, restVars>>

\* checkSniperOpportunity is called for a DepositCurrencyAdded or rate
\* update log, and runs to its first await.
CheckSniperOpportunity(currencyCode, platformName, depositRate) ==
  /\ chk.pc \in {"idle", "skipped", "done", "rejected"}
  /\ LET c == [NoCheck EXCEPT !.currencyCode = currencyCode,
                              !.platformName = platformName,
                              !.depositRate = depositRate]
     IN SniperStep(
          IF currencyCode = "none" THEN [c EXCEPT !.pc = "skipped"]
          ELSE IF currencyCode = "ARS" THEN [c EXCEPT !.pc = "arsRate"]
          ELSE IF currencyCode = "USD"
                 THEN [c EXCEPT !.pc = "users", !.marketRate = UsdMarketRate]
          ELSE [c EXCEPT !.pc = "exchangeRates"])
  /\ alerts' = << >>
  /\ logged' = << >>
  /\ lastQuery' = {}
  /\ UNCHANGED <<exchangeRatesCache, arsRateCache>>

\* getARSRate() returns: the cached rate, or the outcome of one fetch.
GetARSRateReturns(fetchOk) ==
  /\ chk.pc = "arsRate"
  /\ LET ok == arsRateCache \/ fetchOk
         c == [chk EXCEPT !.fetches = IF arsRateCache THEN @ ELSE @ + 1]
     IN /\ SniperStep(IF ok THEN [c EXCEPT !.pc = "users",
                                           !.marketRate = FetchedMarketRate]
                            ELSE [c EXCEPT !.pc = "skipped"])
        /\ arsRateCache' = ok
  /\ UNCHANGED <<alerts, logged, exchangeRatesCache, lastQuery>>

\* Faulty variant: a failed fetch of the rate table is tried again.
GetExchangeRatesReturns_Retry(fetched) ==
  /\ chk.pc = "exchangeRates"
  /\ chk.fetches < 2
  /\ LET table == IF exchangeRatesCache # "none" THEN exchangeRatesCache
                  ELSE fetched
         c == [chk EXCEPT !.fetches = IF exchangeRatesCache # "none" THEN @
                                      ELSE @ + 1]
     IN /\ SniperStep(IF table = "full"
                        THEN [c EXCEPT !.pc = "users",
                                       !.marketRate = FetchedMarketRate]
                        ELSE IF table = "failed" THEN c
                        ELSE [c EXCEPT !.pc = "skipped"])
        /\ exchangeRatesCache' = IF table = "failed" THEN "none" ELSE table
  /\ UNCHANGED <<alerts, logged, arsRateCache, lastQuery>>

\* getExchangeRates() returns: the cached table, or the outcome of one fetch
\* ("full": a table with the currency, "partial": a table without it,
\* "failed": the API said no or the fetch threw).
GetExchangeRatesReturns(fetched) ==
  /\ chk.pc = "exchangeRates"
  /\ LET table == IF exchangeRatesCache # "none" THEN exchangeRatesCache
                  ELSE fetched
         c == [chk EXCEPT !.fetches = IF exchangeRatesCache # "none" THEN @
                                      ELSE @ + 1]
     IN /\ SniperStep(IF table = "full"
                        THEN [c EXCEPT !.pc = "users",
                                       !.marketRate = FetchedMarketRate]
                        ELSE [c EXCEPT !.pc = "skipped"])
        /\ exchangeRatesCache' = IF table = "failed" THEN "none" ELSE table
  /\ UNCHANGED <<alerts, logged, arsRateCache, lastQuery>>

\* RATES_CACHE_DURATION / ARS_CACHE_DURATION pass.
CacheExpires ==
  /\ exchangeRatesCache # "none" \/ arsRateCache
  /\ exchangeRatesCache' = "none"
  /\ arsRateCache' = FALSE
  /\ UNCHANGED <<chk, alerts, logged, lastQuery, reconVars, connVars, restVars>>

\* Faulty variant: the broadcast chat is pushed without the includes() test.
WithBroadcast_Always(users) == Append(users, ZKP2P_GROUP_ID)

\* if (!interestedUsers.includes(ZKP2P_GROUP_ID)) interestedUsers.push(...)
WithBroadcast(users) ==
  IF ~SeqHas(users, ZKP2P_GROUP_ID) THEN Append(users, ZKP2P_GROUP_ID)
                                    ELSE users

\* Faulty variant: the query without the created_at condition.
GetUsersWithSniper_AnyAge(rows, currency, platform, error) ==
  IF error THEN {<< >>}
  ELSE Orders({r.chat_id : r \in {x \in rows : /\ x.currency = currency
                                                /\ x.is_active
                                                /\ (x.platform = platform
                                                    \/ x.platform = "null")}})

\* What db.getUsersWithSniper can return: [] on error, else the keys of
\* userMap.
GetUsersWithSniper(rows, currency, platform, error) ==
  IF error THEN {<< >>}
  ELSE Orders({r.chat_id : r \in SniperQuery(rows, currency, platform)})

\* db.getUsersWithSniper returns and the broadcast chat is pushed.
GetUsersWithSniperReturns(rows, error) ==
  /\ chk.pc = "users"
  /\ \E users \in GetUsersWithSniper(rows, chk.currencyCode, chk.platformName,
                                      error) :
       SniperStep([chk EXCEPT !.pc = "threshold",
                              !.interestedUsers = WithBroadcast(users),
                              !.idx = 1, !.queryError = error])
  /\ lastQuery' = rows
  /\ UNCHANGED <<alerts, logged, exchangeRatesCache, arsRateCache>>

\* The for loop moves to the next chat, or the function ends.
NextCandidate(c) ==
  IF c.idx < Len(c.interestedUsers)
    THEN [c EXCEPT !.pc = "threshold", !.idx = @ + 1, !.retries = 0]
    ELSE [c EXCEPT !.pc = "done", !.retries = 0]

\* db.getUserThreshold returns; stored is what user_settings holds.
GetUserThresholdReturns(stored) ==
  /\ chk.pc = "threshold"
  /\ LET userThreshold == GetUserThreshold(stored)
         c == [chk EXCEPT !.storeds = Append(@, stored),
                          !.thresholds = Append(@, userThreshold),
                          !.queryError = FALSE]
     IN SniperStep(IF PercentageDiffAtLeast(c.marketRate, c.depositRate,
                                            userThreshold)
                     THEN [c EXCEPT !.pc = "log"]
                     ELSE NextCandidate(c))
  /\ lastQuery' = {}
  /\ UNCHANGED <<alerts, logged, exchangeRatesCache, arsRateCache>>

\* db.logSniperAlert returns; error: the insert failed (logged only).
LogSniperAlertReturns(error) ==
  /\ chk.pc = "log"
  /\ SniperStep([chk EXCEPT !.pc = "discord"])
  /\ logged' = IF error THEN logged
               ELSE Append(logged, chk.interestedUsers[chk.idx])
  /\ UNCHANGED <<alerts, exchangeRatesCache, arsRateCache, lastQuery>>

\* postToDiscord returns (posted, answered with an error status, or no
\* webhook configured); bot.sendMessage is called, not awaited.
PostToDiscordReturns ==
  /\ chk.pc = "discord"
  /\ SniperStep(NextCandidate(chk))
  /\ alerts' = Append(alerts, chk.interestedUsers[chk.idx])
  /\ UNCHANGED <<logged, exchangeRatesCache, arsRateCache, lastQuery>>

\* The webhook answers 429: postToDiscord waits retry_after and posts again.
PostToDiscordRateLimited ==
  /\ chk.pc = "discord"
  /\ chk.retries < MaxRetries
  /\ SniperStep([chk EXCEPT !.retries = @ + 1])
  /\ UNCHANGED <<alerts, logged, exchangeRatesCache, arsRateCache, lastQuery>>

\* fetch() in postToDiscord rejects: the rejection leaves
\* checkSniperOpportunity through its awaits.
PostToDiscordThrows ==
  /\ chk.pc = "discord"
  /\ SniperStep([chk EXCEPT !.pc = "rejected"])
  /\ UNCHANGED <<alerts, logged, exchangeRatesCache, arsRateCache, lastQuery>>

NextSniper ==
  \/ \E cc \in CurrencyCodes, pn \in PlatformNames, dr \in DepositRates :
       CheckSniperOpportunity(cc, pn, dr)
  \/ \E fetchOk \in BOOLEAN : GetARSRateReturns(fetchOk)
  \/ \E fetched \in {"full", "partial", "failed"} : GetExchangeRatesReturns(fetched)
  \/ CacheExpires
  \/ \E rows \in RowSets(MaxRows), error \in BOOLEAN :
       GetUsersWithSniperReturns(rows, error)
  \/ \E stored \in StoredThresholds : GetUserThresholdReturns(stored)
  \/ \E error \in BOOLEAN : LogSniperAlertReturns(error)
  \/ PostToDiscordReturns
  \/ PostToDiscordRateLimited
  \/ PostToDiscordThrows

(***************************************************************************)
(* The rate caches: getExchangeRates and getARSRate.  The two functions    *)
(* have the same shape, so a slot names which one a call is: "exchange" is *)
(* exchangeRatesCache / lastRatesFetch, "ars" is arsRateCache /            *)
(* lastARSFetch.  Calls come from event handlers that are suspended in     *)
(* their awaits, so a second call can start while the fetch of a first is  *)
(* in flight.  A cached value is known by the stamp it was stored with and *)
(* the time its fetch returned.                                            *)
(***************************************************************************)
RATES_CACHE_DURATION == 60000
ARS_CACHE_DURATION == 60000

Slots == {"exchange", "ars"}
Readers == 1..MaxReaders

CacheDuration(slot) ==
  IF slot = "exchange" THEN RATES_CACHE_DURATION ELSE ARS_CACHE_DURATION

\* null (or undefined): nothing cached, or nothing to return
NoRate == [issued |-> -1, completed |-> -1]

NoRead == [pc |-> "idle", slot |-> "exchange", now |-> 0, fetches |-> 0]

NoRet == [slot |-> "none", value |-> NoRate, hit |-> FALSE, failed |-> FALSE,
          stale |-> FALSE]

\* What the rate service can answer: "success" (a table / both usdc prices),
\* "noTable" (result === 'success' without conversion_rates), "error"
\* (another result, a missing usdc price, or fetch / json() throwing).
Answers(slot) ==
  IF slot = "exchange" THEN {"success", "noTable", "error"}
  ELSE {"success", "error"}

InitRates ==
  /\ now = 0
  /\ rateCache = [s \in Slots |-> NoRate]
  /\ lastFetch = [s \in Slots |-> 0]
  /\ rd = [r \in Readers |-> NoRead]
  /\ lastOk = [s \in Slots |-> -1]
  /\ ret = NoRet

\* exchangeRatesCache && (now - lastRatesFetch) < RATES_CACHE_DURATION
IsFresh(slot, at) ==
  rateCache[slot] # NoRate /\ at - lastFetch[slot] < CacheDuration(slot)

\* Faulty variant: a failed refresh falls back to what is cached.
FetchFailed_ServesCache(cached) == cached

\* return null of the else branch and of the catch block
FetchFailed(cached) == NoRate

\* A call of getExchangeRates() / getARSRate(): it takes now, and returns
\* the cached value if that is fresh, else starts its fetch.
GetRate(r, slot) ==
  /\ rd[r].pc = "idle"
  /\ IF IsFresh(slot, now)
       THEN /\ ret' = [NoRet EXCEPT !.slot = slot, !.value = rateCache[slot],
                                    !.hit = TRUE]
            /\ UNCHANGED rd
       ELSE /\ rd' = [rd EXCEPT ![r] = [pc |-> "fetch", slot |-> slot,
                                        now |-> now, fetches |-> 1]]
            /\ ret' = NoRet
  /\ UNCHANGED <<now, rateCache, lastFetch, lastOk, notRateVars>>

\* The fetch of reader r settles and the call returns.
FetchSettles(r, answer) ==
  /\ rd[r].pc = "fetch"
  /\ answer \in Answers(rd[r].slot)
  /\ LET slot == rd[r].slot
         value == [issued |-> rd[r].now, completed |-> now]
         stale == rateCache[slot] # NoRate /\ ~IsFresh(slot, now)
     IN /\ rateCache' =
             [rateCache EXCEPT ![slot] = IF answer = "success" THEN value
                                         ELSE IF answer = "noTable" THEN NoRate
                                         ELSE @]
        /\ lastFetch' = [lastFetch EXCEPT ![slot] = IF answer = "error" THEN @
                                                    ELSE rd[r].now]
        /\ lastOk' = [lastOk EXCEPT ![slot] =
                        IF answer = "success" /\ rd[r].now > @ THEN rd[r].now
                        ELSE @]
        /\ ret' = [slot |-> slot,
                   value |-> IF answer = "success" THEN value
                             ELSE IF answer = "noTable" THEN NoRate
                             ELSE FetchFailed(rateCache[slot]),
                   hit |-> FALSE,
                   failed |-> answer # "success",
                   stale |-> stale]
  /\ rd' = [rd EXCEPT ![r] = NoRead]
  /\ UNCHANGED <<now, notRateVars>>

\* Time passes.
ClockTick ==
  /\ now < MaxClock * TickMs
  /\ now' = now + TickMs
  /\ ret' = NoRet
  /\ UNCHANGED <<rateCache, lastFetch, rd, lastOk, notRateVars>>

NextRates ==
  \/ \E r \in Readers, slot \in Slots : GetRate(r, slot)
  \/ \E r \in Readers, answer \in {"success", "noTable", "error"} :
       FetchSettles(r, answer)
  \/ ClockTick

(***************************************************************************)
(* Tracing: startTracing with the shutdown closure of its state, and the   *)
(* shutdown hooks registerTracing installs on the process object.  Calls   *)
(* of shutdown() are counted, not named: waiting is the number of calls    *)
(* whose promise has not settled, results the outcomes calls settled with. *)
(***************************************************************************)
Events == {"SIGTERM", "SIGINT", "beforeExit"}

\* What a caller passes as shutdown: no function, state.shutdown, or another
\* function.
ShutdownArgs == {"undefined", "state.shutdown", "other"}

InitTracing ==
  /\ tracingState = "null"
  /\ unregisterIsFunction = FALSE
  /\ shutdownPromise = "undefined"
  /\ unregisterCalls = 0
  /\ providerShutdownCalls = 0
  /\ nCalls = 0
  /\ waiting = 0
  /\ results = {}
  /\ hooksInstalled = FALSE
  /\ listeners = [e \in Events |-> << >>]
  /\ registered = 0
  /\ nResets = 0
  /\ hookCall = "none"

\* Faulty variant: the flag is not tested.
InstallShutdownHooks_NoFlag(shutdown) ==
  IF shutdown = "undefined"
    THEN UNCHANGED <<hooksInstalled, listeners, registered>>
    ELSE /\ hooksInstalled' = TRUE
         /\ listeners' = [e \in Events |-> Append(listeners[e], shutdown)]
         /\ registered' = registered + Cardinality(Events)

\* installShutdownHooks({ processObj, shutdown })
InstallShutdownHooks(shutdown) ==
  IF hooksInstalled \/ shutdown = "undefined"
    THEN UNCHANGED <<hooksInstalled, listeners, registered>>
    ELSE /\ hooksInstalled' = TRUE
         /\ listeners' = [e \in Events |-> Append(listeners[e], shutdown)]
         /\ registered' = registered + Cardinality(Events)

\* startTracing(options): the state is created once; enabled is
\* config.enabled, isFunction what registerInstrumentations returned.
StartTracing(enabled, isFunction) ==
  IF tracingState # "null"
    THEN UNCHANGED <<tracingState, unregisterIsFunction>>
    ELSE /\ tracingState' = IF enabled THEN "enabled" ELSE "disabled"
         /\ unregisterIsFunction' = (enabled /\ isFunction)

\* registerTracing(options): startTracing, and the hooks when the state is
\* enabled; a throw of startTracing is reported and nothing is kept.
RegisterTracing(enabled, isFunction, throws) ==
  /\ IF throws /\ tracingState = "null"
       THEN /\ UNCHANGED <<tracingState, unregisterIsFunction, hooksInstalled,
                           listeners, registered>>
            /\ hookCall' = "none"
       ELSE /\ StartTracing(enabled, isFunction)
            /\ IF tracingState' = "enabled"
                 THEN /\ InstallShutdownHooks("state.shutdown")
                      /\ hookCall' = "state.shutdown"
                 ELSE /\ UNCHANGED <<hooksInstalled, listeners, registered>>
                      /\ hookCall' = "none"
  /\ UNCHANGED <<shutdownPromise, unregisterCalls, providerShutdownCalls,
                 nCalls, waiting, results, nResets, notObsVars>>

\* installShutdownHooks called directly.
InstallShutdownHooksCalled(shutdown) ==
  /\ InstallShutdownHooks(shutdown)
  /\ hookCall' = shutdown
  /\ UNCHANGED <<nResets, traceVars, notObsVars>>

\* resetHooksForTests()
ResetHooksForTests ==
  /\ nResets < MaxResets
  /\ nResets' = nResets + 1
  /\ hooksInstalled' = FALSE
  /\ registered' = 0
  /\ hookCall' = "none"
  /\ UNCHANGED <<listeners, traceVars, notObsVars>>

\* The process object emits the event: its once() listeners are removed and
\* run; each queues a call of the shutdown function it closes over.
Emit(event) ==
  /\ listeners[event] # << >>
  /\ listeners' = [listeners EXCEPT ![event] = << >>]
  /\ hookCall' = "none"
  /\ UNCHANGED <<hooksInstalled, registered, nResets, traceVars, notObsVars>>

\* Faulty variant: shutdown() without the shutdownPromise memo.
Shutdown_NoMemo ==
  /\ unregisterCalls' = IF unregisterIsFunction THEN unregisterCalls + 1
                        ELSE unregisterCalls
  /\ providerShutdownCalls' = providerShutdownCalls + 1
  /\ shutdownPromise' = "pending"

\* The body of state.shutdown for an enabled state.
Shutdown ==
  IF shutdownPromise = "undefined"
    THEN /\ unregisterCalls' = IF unregisterIsFunction THEN unregisterCalls + 1
                               ELSE unregisterCalls
         /\ providerShutdownCalls' = providerShutdownCalls + 1
         /\ shutdownPromise' = "pending"
    ELSE UNCHANGED <<unregisterCalls, providerShutdownCalls, shutdownPromise>>

\* state.shutdown() is called.  For a disabled state it is
\* async () => undefined.
ShutdownCalled ==
  /\ tracingState # "null"
  /\ nCalls < MaxCalls
  /\ nCalls' = nCalls + 1
  /\ IF tracingState = "disabled"
       THEN /\ results' = results \cup {"fulfilled"}
            /\ UNCHANGED <<waiting, unregisterCalls, providerShutdownCalls,
                           shutdownPromise>>
       ELSE /\ Shutdown
            /\ waiting' = waiting + 1
            /\ UNCHANGED results
  /\ UNCHANGED <<tracingState, unregisterIsFunction, hookVars, notObsVars>>

\* The promise of provider.shutdown() settles.
ProviderShutdownSettles(ok) ==
  /\ shutdownPromise = "pending"
  /\ shutdownPromise' = IF ok THEN "fulfilled" ELSE "rejected"
  /\ UNCHANGED <<tracingState, unregisterIsFunction, unregisterCalls,
                 providerShutdownCalls, nCalls, waiting, results, hookVars,
                 notObsVars>>

\* The promise a call of shutdown() returned settles as shutdownPromise did.
CallSettles ==
  /\ waiting > 0
  /\ shutdownPromise \in {"fulfilled", "rejected"}
  /\ waiting' = waiting - 1
  /\ results' = results \cup {shutdownPromise}
  /\ UNCHANGED <<tracingState, unregisterIsFunction, shutdownPromise,
                 unregisterCalls, providerShutdownCalls, nCalls, hookVars,
                 notObsVars>>

NextTracing ==
  \/ \E enabled \in BOOLEAN, isFunction \in BOOLEAN, throws \in BOOLEAN :
       RegisterTracing(enabled, isFunction, throws)
  \/ \E shutdown \in ShutdownArgs : InstallShutdownHooksCalled(shutdown)
  \/ ResetHooksForTests
  \/ \E event \in Events : Emit(event)
  \/ ShutdownCalled
  \/ \E ok \in BOOLEAN : ProviderShutdownSettles(ok)
  \/ CallSettles

(***************************************************************************)
(* The log shipper of logger.js: sendToBetterStack and flushLogs.  A       *)
(* request is the promise sendToBetterStack builds around one fetch; its   *)
(* then / catch / finally run together when the fetch settles.             *)
(***************************************************************************)
Requests == 1..MaxRequests
Flushes == 1..MaxFlushes

NoFlush == [pc |-> "idle", awaited |-> {}]

InitLogger ==
  /\ BETTERSTACK_SOURCE_TOKEN = TRUE
  /\ request = [r \in Requests |-> "unsent"]
  /\ inflightRequests = {}
  /\ flush = [f \in Flushes |-> NoFlush]

\* sendToBetterStack(payload): nothing is sent without a token.
SendToBetterStack(r) ==
  /\ request[r] = "unsent"
  /\ IF ~BETTERSTACK_SOURCE_TOKEN
       THEN /\ request' = [request EXCEPT ![r] = "skipped"]
            /\ UNCHANGED inflightRequests
       ELSE /\ request' = [request EXCEPT ![r] = "inflight"]
            /\ inflightRequests' = inflightRequests \cup {r}
  /\ UNCHANGED <<BETTERSTACK_SOURCE_TOKEN, flush, notLogVars>>

\* The fetch of a request settles: then or catch turn the outcome into
\* undefined and finally takes the request out of the set.
RequestSettles(r, ok) ==
  /\ request[r] = "inflight"
  /\ request' = [request EXCEPT ![r] = IF ok THEN "succeeded" ELSE "failed"]
  /\ inflightRequests' = inflightRequests \ {r}
  /\ UNCHANGED <<BETTERSTACK_SOURCE_TOKEN, flush, notLogVars>>

\* flushLogs() is called: it returns at once when nothing is in flight, else
\* awaits Promise.allSettled of the requests in the set at that moment.
FlushLogs(f) ==
  /\ flush[f].pc \in {"idle", "resolved"}
  /\ flush' = [flush EXCEPT ![f] =
                 IF inflightRequests = {}
                   THEN [pc |-> "resolved", awaited |-> {}]
                   ELSE [pc |-> "awaiting", awaited |-> inflightRequests]]
  /\ UNCHANGED <<BETTERSTACK_SOURCE_TOKEN, request, inflightRequests, notLogVars>>

\* Faulty variant: the await is over when one of the requests has settled.
AllSettled_Race(awaited) ==
  \E r \in awaited : request[r] \in {"succeeded", "failed"}

\* Promise.allSettled(...) has resolved.
AllSettled(awaited) ==
  \A r \in awaited : request[r] \in {"succeeded", "failed"}

\* The await of flushLogs is over and its promise resolves.
FlushResolves(f) ==
  /\ flush[f].pc = "awaiting"
  /\ AllSettled(flush[f].awaited)
  /\ flush' = [flush EXCEPT ![f].pc = "resolved"]
  /\ UNCHANGED <<BETTERSTACK_SOURCE_TOKEN, request, inflightRequests, notLogVars>>

NextLogger ==
  \/ \E r \in Requests : SendToBetterStack(r)
  \/ \E r \in Requests, ok \in BOOLEAN : RequestSettles(r, ok)
  \/ \E f \in Flushes : FlushLogs(f)
  \/ \E f \in Flushes : FlushResolves(f)

(***************************************************************************)
(* Specifications: the reconciliation engine fed with logs, and one        *)
(* connection manager with its environment.                                *)
(***************************************************************************)
InitRest == InitRates /\ undecoded = 0 /\ InitTracing /\ InitLogger

InitReconOnly == InitRecon /\ mgr = Constructed /\ stopped = FALSE
                 /\ destroyedMidBackoff = FALSE /\ InitSniper /\ InitRest

SpecRecon == InitReconOnly /\ [][NextRecon]_vars

InitConnOnly == InitConn /\ InitRecon /\ InitSniper /\ InitRest

SpecConn == InitConnOnly /\ [][NextConn]_vars

InitSniperOnly == InitSniper /\ InitRecon /\ mgr = Constructed /\ stopped = FALSE
                  /\ destroyedMidBackoff = FALSE /\ InitRest

SpecSniper == InitSniperOnly /\ [][NextSniper]_vars

InitRatesOnly == InitRates /\ InitRecon /\ mgr = Constructed /\ stopped = FALSE
                 /\ destroyedMidBackoff = FALSE /\ InitSniper /\ undecoded = 0
                 /\ InitTracing /\ InitLogger

SpecRates == InitRatesOnly /\ [][NextRates]_vars

InitTracingOnly == InitTracing /\ InitRecon /\ mgr = Constructed /\ stopped = FALSE
                   /\ destroyedMidBackoff = FALSE /\ InitSniper /\ InitRates
                   /\ undecoded = 0 /\ InitLogger

SpecTracing == InitTracingOnly /\ [][NextTracing]_vars

\* The token is read from the environment when the module is loaded.
InitLoggerOnly == /\ BETTERSTACK_SOURCE_TOKEN \in BOOLEAN
                  /\ request = [r \in Requests |-> "unsent"]
                  /\ inflightRequests = {}
                  /\ flush = [f \in Flushes |-> NoFlush]
                  /\ InitRecon /\ mgr = Constructed /\ stopped = FALSE
                  /\ destroyedMidBackoff = FALSE /\ InitSniper /\ InitRates
                  /\ undecoded = 0 /\ InitTracing

SpecLogger == InitLoggerOnly /\ [][NextLogger]_vars

(***************************************************************************)
(* Claims about the connection manager.                                    *)
(***************************************************************************)
RECURSIVE Pow(_, _)
Pow(b, n) == IF n = 0 THEN 1 ELSE b * Pow(b, n - 1)

\* The first attempt number whose uncapped delay 1000 * 1.5^n reaches 30000,
\* found with integers: 1000 * 3^n >= 30000 * 2^n.
FirstCapped ==
  CHOOSE n \in 1..12 :
    /\ 1000 * Pow(3, n) >= maxReconnectDelay * Pow(2, n)
    /\ \A k \in 1..(n - 1) : 1000 * Pow(3, k) < maxReconnectDelay * Pow(2, k)

\* min(1000 * 1.5^n, 30000) ms in units of 1/256 ms, as the claim gives it:
\* below the cap d satisfies d * 2^n = 1000 * 3^n.
IsClaimedDelay(d, n) ==
  IF n < FirstCapped THEN d * Pow(2, n) = Ms(1000) * Pow(3, n)
                     ELSE d = Ms(maxReconnectDelay)

\* C7: the delay of the backoff timer armed for reconnection attempt n
\* (n = 1..50) is min(1000 * 1.5^n, 30000) ms; the delays are non-decreasing in
\* n and stay at 30000 from the first n whose uncapped delay reaches 30000.
C7_BackoffDelay ==
  mgr.reconnectArmed =>
    LET n == mgr.reconnectFor IN
    /\ n \in 1..maxReconnectAttempts
    /\ IsClaimedDelay(mgr.reconnectMs, n)
    /\ n > 1 => ReconnectDelayFor(mgr.reconnectDelay, n - 1) <= mgr.reconnectMs
    /\ n >= FirstCapped => mgr.reconnectMs = Ms(maxReconnectDelay)

\* C7 witness: the timer is armed for the 50th attempt at the capped delay.
C7_Witness ==
  /\ mgr.reconnectArmed
  /\ mgr.reconnectFor = maxReconnectAttempts
  /\ mgr.reconnectMs = Ms(maxReconnectDelay)

\* A connect attempt starts: the Connecting transition.
ConnectStarts == ~mgr.isConnecting /\ mgr'.isConnecting

C9_DestroyCancelsBackoff ==
  /\ [][(mgr.reconnectArmed /\ DestroyCalled) => ~mgr'.reconnectArmed]_vars
  /\ [](destroyedMidBackoff => ~mgr.reconnectArmed)
  /\ [][destroyedMidBackoff => ~ConnectStarts]_vars

\* C9 witness: destroy() was called mid-backoff and has run to its end.
C9_Witness ==
  /\ destroyedMidBackoff
  /\ mgr.isDestroyed
  /\ mgr.destroyPc = "done"
  /\ ~mgr.reconnectArmed

\* this.provider becomes a transport that has not been torn down.
OpensTransport ==
  /\ mgr'.provider.exists /\ ~mgr'.provider.dead
  /\ ~mgr.provider.exists \/ mgr.provider.dead

\* A listener is attached to the current transport.
AttachesListener ==
  \/ ~mgr.provider.wsL /\ mgr'.provider.wsL
  \/ ~mgr.provider.errL /\ mgr'.provider.errL
  \/ ~mgr.provider.logL /\ mgr'.provider.logL

\* The keep-alive interval is started.
StartsHeartbeat == ~mgr.keepAliveTimer /\ mgr'.keepAliveTimer

\* C10: once destroy() has been called, a connect() that was suspended at
\* that moment opens no new transport, attaches no listener and starts no
\* heartbeat timer.
C10_SuspendedConnectAborts ==
  [][mgr.isDestroyed => ~(OpensTransport \/ AttachesListener \/ StartsHeartbeat)]_vars

\* C11: after destroy() has completed none of the manager's timers is armed:
\* not the backoff timer, the heartbeat interval, the 3 s timer of restart()
\* or the 2 s timer of the 'close' listener.
C11_NoTimerAfterDestroy ==
  mgr.destroyPc = "done" =>
    /\ ~mgr.reconnectArmed
    /\ ~mgr.keepAliveTimer
    /\ mgr.restartTimers = 0
    /\ mgr.closeTimers = 0

\* C12: a connect() call made while an attempt is in progress, or after
\* destroy(), changes nothing; when a timer callback makes the call during an
\* attempt, the only change of the step is that the timer is spent.
C12_ConnectNoOp ==
  /\ [](\A c \in BOOLEAN :
         (mgr.isConnecting \/ mgr.isDestroyed) => Connect(mgr, c) = mgr)
  /\ [][\A c \in BOOLEAN :
          (mgr.isConnecting /\ RestartTimerFires(c))
            => mgr' = [mgr EXCEPT !.restartTimers = @ - 1]]_vars
  /\ [][\A c \in BOOLEAN :
          (mgr.isConnecting /\ ReconnectTimerFires(c))
            => mgr' = [mgr EXCEPT !.reconnectArmed = FALSE, !.reconnectMs = 0,
                                  !.reconnectFor = 0,
                                  !.reconnectTimers = @ - 1]]_vars

\* C12 witness: an attempt is suspended in its handshake while the 3 s timer
\* of a restart() and a backoff timer are both about to call connect().
C12_Witness ==
  /\ mgr.isConnecting
  /\ mgr.connectPc = "handshake"
  /\ mgr.restartTimers > 0
  /\ mgr.reconnectArmed
  /\ ~mgr.isDestroyed

\* C13: isConnected is true only with a transport that exists and reports
\* open and activity less than 120 s old; with activity 120 s old or older it
\* is false, and the health check then calls restart().
C13_IsConnected ==
  /\ [](IsConnected(mgr) =>
          /\ mgr.provider.exists
          /\ mgr.provider.ws = "open"
          /\ mgr.age < ActiveWithinMs)
  /\ [](mgr.age >= ActiveWithinMs => ~IsConnected(mgr))
  /\ [][HealthCheck =>
          ~(mgr.provider.exists /\ mgr.provider.ws = "open"
            /\ mgr.age < ActiveWithinMs)]_vars

\* C13 witness: the transport reports open and the last activity is exactly
\* 120 s old.
C13_Witness ==
  /\ mgr.provider.exists
  /\ mgr.provider.ws = "open"
  /\ mgr.age = ActiveWithinMs
  /\ ~IsConnected(mgr)

\* A transport that has not been torn down.
Live(p) == p.exists /\ ~p.dead

\* A connect() reaches `new WebSocketProvider`.
CreatesTransport ==
  /\ mgr.connectPc # "handshake"
  /\ mgr'.connectPc = "handshake"

CheckOver == chk.pc \in {"done", "rejected"}

\* The state in which db.getUsersWithSniper has just returned.
JustQueried ==
  chk.pc = "threshold" /\ chk.idx = 1 /\ chk.storeds = << >>

SeqSet(q) == {q[i] : i \in DOMAIN q}

NoDuplicates(q) == \A i, j \in DOMAIN q : i # j => q[i] # q[j]

\* C15: when a check is over, every candidate whose threshold was read has
\* been sent an alert if and only if percentDiff >= its threshold, the
\* boundary included.
C15_AlertIffAtLeast ==
  CheckOver =>
    \A k \in DOMAIN chk.thresholds :
      SeqHas(alerts, chk.interestedUsers[k])
        <=> (chk.marketRate - chk.depositRate) * 10000
              >= chk.thresholds[k] * chk.marketRate

\* C16: within one check no chat is a candidate twice and no chat is sent two
\* alerts, also when it has several matching subscriptions or is the
\* broadcast chat and subscribed as well.
C16_OneAlertPerSubscriber ==
  /\ NoDuplicates(chk.interestedUsers)
  /\ NoDuplicates(alerts)
  /\ SeqSet(alerts) \subseteq SeqSet(chk.interestedUsers)

\* C16 witness: the broadcast chat has a platform subscription and an
\* all-platforms subscription that both match the event, and is a candidate
\* once.
C16_Witness ==
  /\ JustQueried
  /\ ~chk.queryError
  /\ chk.interestedUsers = <<ZKP2P_GROUP_ID>>
  /\ LET hits == SniperQuery(lastQuery, chk.currencyCode, chk.platformName)
     IN /\ Cardinality(hits) = 2
        /\ \A r \in hits : r.chat_id = ZKP2P_GROUP_ID

\* The chats with an active subscription for the currency whose platform is
\* unset or the platform of the event.
ActiveSubscribers(rows, currency, platform) ==
  {r.chat_id : r \in {x \in rows : /\ x.currency = currency
                                  /\ x.is_active
                                  /\ x.platform \in {"null", platform}}}

\* C17 as claimed: the candidates are the broadcast chat and exactly the chats
\* with an active subscription for the currency whose platform is unset or
\* equal to the platform of the event.
C17_CandidatesAllActive ==
  JustQueried =>
    SeqSet(chk.interestedUsers) =
      {ZKP2P_GROUP_ID}
        \cup ActiveSubscribers(lastQuery, chk.currencyCode, chk.platformName)

\* C17 amended: the broadcast chat is always a candidate; when the lookup
\* succeeds the other candidates are exactly the chats with an active
\* subscription created within the last 30 days for the currency whose
\* platform is unset or equal; when the lookup fails the broadcast chat is
\* the only candidate.
C17_CandidatesRecentActive ==
  JustQueried =>
    /\ SeqHas(chk.interestedUsers, ZKP2P_GROUP_ID)
    /\ SeqSet(chk.interestedUsers) =
         {ZKP2P_GROUP_ID}
           \cup IF chk.queryError THEN {}
                ELSE ActiveSubscribers({r \in lastQuery : r.recent},
                                       chk.currencyCode, chk.platformName)

\* C17 witness: the lookup succeeded, one user has a matching active
\* subscription older than 30 days and is no candidate, and the broadcast
\* chat, without a subscription, is one.
C17_Witness ==
  /\ JustQueried
  /\ ~chk.queryError
  /\ chk.interestedUsers = <<ZKP2P_GROUP_ID>>
  /\ \E r \in lastQuery :
       /\ r.chat_id # ZKP2P_GROUP_ID
       /\ r.currency = chk.currencyCode /\ r.is_active /\ ~r.recent
       /\ r.platform = chk.platformName

\* C18: when the currency is unknown or no market rate was resolved the
\* check ends at once: no candidate is looked up, no alert is sent, no alert
\* is recorded; and no check fetches rates more than once.
C18_NoRateNoAlert ==
  /\ (chk.pc \notin {"idle", "arsRate", "exchangeRates"}
        /\ (chk.currencyCode = "none" \/ chk.marketRate = 0)) =>
       /\ chk.pc = "skipped"
       /\ chk.interestedUsers = << >>
       /\ alerts = << >>
       /\ logged = << >>
  /\ chk.fetches <= 1

\* C18 witness: a check for EUR ended after its one fetch of the rate table
\* failed or brought no rate for the currency.
C18_Witness ==
  /\ chk.pc = "skipped"
  /\ chk.currencyCode = "EUR"
  /\ chk.fetches = 1
  /\ chk.marketRate = 0

\* C19: the threshold used for a candidate is the stored one whenever one is
\* stored, and 0.2 when none is stored.
C19_StoredThresholdUsed ==
  \A k \in DOMAIN chk.thresholds :
    chk.thresholds[k] = IF chk.storeds[k] # NoThreshold THEN chk.storeds[k]
                        ELSE DefaultThreshold

\* C20: when a check is over, every candidate has been evaluated, whatever
\* happened to the deliveries of the candidates before it.
C20_DeliveryFailureIsolated ==
  CheckOver => Len(chk.thresholds) = Len(chk.interestedUsers)

(***************************************************************************)
(* Claims about the rate caches.                                           *)
(***************************************************************************)
\* A step in which a read of the slot starts its fetch.
IssuesFetch(slot) ==
  \E r \in Readers : /\ rd[r].pc = "idle"
                     /\ rd'[r].pc = "fetch"
                     /\ rd'[r].slot = slot

\* A step in which a read of the slot returns what is cached.
ReadsCache(slot) == ret' # NoRet /\ ret'.hit /\ ret'.slot = slot

\* Less than the cache duration has passed since the stamp of a fetch of
\* the slot that succeeded.
WindowOpen(slot) ==
  lastOk[slot] >= 0 /\ now - lastOk[slot] < CacheDuration(slot)

\* A fetch of the slot issued less than the cache duration ago is in flight.
FetchInFlight(slot) ==
  \E r \in Readers : /\ rd[r].pc = "fetch"
                     /\ rd[r].slot = slot
                     /\ now - rd[r].now < CacheDuration(slot)

\* C21: a read of a slot less than 60 s after a successful fetch of it
\* returns the cached value and issues no fetch; a read issues a fetch only
\* when no successful fetch is less than 60 s old, and then exactly one.
C21_FreshReadsDoNotFetch ==
  /\ [][\A s \in Slots :
          /\ IssuesFetch(s) => ~WindowOpen(s)
          /\ ReadsCache(s) => WindowOpen(s) /\ ret'.value = rateCache[s]]_vars
  /\ [](\A r \in Readers : rd[r].fetches <= 1)

\* C22: for each slot a fetch is issued only when no fetch of that slot
\* issued less than 60 s ago has succeeded or is still in flight.
C22_OneFetchPerWindow ==
  [][\A s \in Slots :
       IssuesFetch(s) => ~WindowOpen(s) /\ ~FetchInFlight(s)]_vars

\* C23: a read that returns a cached value returns one stamped less than
\* 60 s ago, a read that fetched returns what its fetch has just brought,
\* and a read whose refresh failed returns null, whatever is cached.
C23_NeverServesStale ==
  ret # NoRet =>
    /\ ret.hit => ret.value # NoRate
                  /\ now - ret.value.issued < CacheDuration(ret.slot)
    /\ ~ret.hit /\ ~ret.failed => ret.value.completed = now
    /\ ret.failed => ret.value = NoRate

\* A refresh has just failed while a value older than 60 s was cached.
C23_Witness ==
  /\ ret # NoRet
  /\ ret.failed
  /\ ret.stale
  /\ rateCache[ret.slot] # NoRate
  /\ ret.value = NoRate

(***************************************************************************)
(* Claims about handler failures and the reconciliation timer.             *)
(***************************************************************************)
\* A step in which a log is delivered that parseLog does not decode.
DecodingFails == undecoded' # undecoded

\* C24: a log that fails decoding leaves the pending-transaction table, the
\* scheduled set with its timers, the running reconciliations, the rate
\* caches and the intent-detail maps as they were, so that what later logs
\* do, which depends on these only, is what it would have been without it.
C24_UndecodableLogIgnored ==
  [][DecodingFails =>
       UNCHANGED <<pendingTransactions, processingScheduled, reconTimers,
                   recon, intentDetails, orchestratorIntentDetails, outcomes,
                   exchangeRatesCache, arsRateCache, rateCache, lastFetch>>]_vars

\* A log failed decoding, and intent logs of a transaction are recorded,
\* scheduled and being reconciled.
C24_Witness ==
  /\ undecoded >= 1
  /\ \E t \in TxHashes : /\ MapHas(pendingTransactions, t)
                          /\ t \in processingScheduled
                          /\ recon[t].pc \in {"sendPruned", "sendFulfilled"}

\* C25: an exception in a handler or in the delivery of an outcome does not
\* keep later logs of the hash from being reconciled: an entry recorded for
\* a hash always has its timer pending or its reconciliation running.
C25_ExceptionContained ==
  \A t \in TxHashes :
    MapHas(pendingTransactions, t) =>
      t \in reconTimers \/ recon[t].pc \in {"sendPruned", "sendFulfilled"}

\* A step in which the handler of a log runs.
HandlerRuns == nEvents' # nEvents

\* The reconciliation of the hash is suspended in a notification delivery.
Delivering(t) == recon[t].pc \in {"sendPruned", "sendFulfilled"}

\* C29: while the reconciliation of a hash is suspended in a delivery, no
\* handler changes the entry of that hash.
C29_NoHandlerDuringDelivery ==
  [][\A t \in TxHashes :
       Delivering(t) /\ HandlerRuns =>
         /\ MapHas(pendingTransactions', t)
         /\ pendingTransactions'[t] = pendingTransactions[t]]_vars

\* C30: a hash has at most one timer pending; a timer is armed only by the
\* log that creates the entry of the hash, and a log handled while the timer
\* is pending leaves that timer as it is.
C30_OneTimerPerHash ==
  /\ [](\A t \in TxHashes : Len(armed[t]) <= 1)
  /\ [][\A t \in TxHashes :
          /\ armed[t] # << >> /\ HandlerRuns => armed'[t] = armed[t]
          /\ armed[t] = << >> /\ armed'[t] # << >> =>
               ~MapHas(pendingTransactions, t)]_vars

\* A timer is pending for a hash and a later log of the hash was recorded.
C30_Witness ==
  \E t \in TxHashes :
    /\ Len(armed[t]) = 1
    /\ armed[t][1] < nEvents
    /\ Cardinality(seen[t]) >= 2
    /\ t \in reconTimers

C27_HooksInstalledOnce ==
  /\ [](registered <= Cardinality(Events))
  /\ [][/\ hookCall' # "none" /\ hooksInstalled => listeners' = listeners
        /\ hookCall' = "undefined" =>
             /\ listeners' = listeners
             /\ hooksInstalled' = hooksInstalled]_vars

\* The hooks are installed for state.shutdown, and a later call with another
\* function has registered nothing.
C27_Witness ==
  /\ hooksInstalled
  /\ hookCall = "other"
  /\ registered = Cardinality(Events)
  /\ \A e \in Events : listeners[e] = <<"state.shutdown">>

(***************************************************************************)
(* Claims about the log shipper.                                           *)
(***************************************************************************)
\* C28: a flushLogs() call that has resolved awaited requests that have all
\* settled, succeeded or failed; a flushLogs() call that is awaiting awaits
\* every request that was in the set when it was called and has not settled;
\* the set holds exactly the requests sent and not settled; and a flushLogs()
\* call never rejects.
C28_FlushAwaitsInflight ==
  /\ inflightRequests = {r \in Requests : request[r] = "inflight"}
  /\ \A f \in Flushes :
       /\ flush[f].pc \in {"idle", "awaiting", "resolved"}
       /\ flush[f].pc = "resolved" =>
            \A r \in flush[f].awaited : request[r] \in {"succeeded", "failed"}
       /\ flush[f].pc = "awaiting" => flush[f].awaited # {}

\* A flushLogs() call resolved after awaiting a request that succeeded and one
\* that failed, while a request sent after the call is still in flight.
C28_Witness ==
  \E f \in Flushes :
    /\ flush[f].pc = "resolved"
    /\ \E r1, r2 \in flush[f].awaited :
         request[r1] = "succeeded" /\ request[r2] = "failed"
    /\ inflightRequests # {}

(***************************************************************************)
(* Further claims about the reconciliation.                                *)
(***************************************************************************)
\* C31: an outcome of a hash is handed to delivery only after the timer of
\* that hash has fired, and the handler of a log hands over none: it records
\* the log and schedules the timer.
C31_NoOutcomeBeforeTimer ==
  /\ [](\A t \in TxHashes : OutcomesOf(outcomes, t) # {} => fired[t])
  /\ [][HandlerRuns => outcomes' = outcomes]_vars

\* An outcome was handed over for one hash after its timer fired, while the
\* other hash has logs recorded, its timer pending and no outcome.
C31_Witness ==
  \E t, u \in TxHashes :
    /\ fired[t] /\ OutcomesOf(outcomes, t) # {}
    /\ seen[u] # {} /\ u \in reconTimers /\ ~fired[u]
    /\ OutcomesOf(outcomes, u) = {}

(***************************************************************************)
(* Further claims about the connection manager.                            *)
(***************************************************************************)
\* C32: a connect attempt whose handshake completes leaves the backoff base
\* at 1000 ms and the attempt counter at 0, or at 1 when the listener setup
\* that follows scheduled a reconnect; in every other step the counter stays,
\* returns to 0 or grows by one, so that it counts the reconnections
\* scheduled since the last success.
C32_SuccessResetsCounter ==
  /\ [][(\E onThrows \in BOOLEAN : HandshakeSucceeds(onThrows)) =>
          /\ mgr'.reconnectDelay = 1000
          /\ \/ mgr'.reconnectAttempts = 0 /\ mgr'.reconnectFor = mgr.reconnectFor
             \/ /\ mgr'.reconnectAttempts = 1
                /\ mgr'.reconnectArmed /\ mgr'.reconnectFor = 1]_vars
  /\ [][~(\E onThrows \in BOOLEAN : HandshakeSucceeds(onThrows)) =>
          mgr'.reconnectAttempts \in
            {mgr.reconnectAttempts, 0, mgr.reconnectAttempts + 1}]_vars

\* The handshake completed and the log listener is attached: the manager is
\* connected with the counter at 0.
C32_Witness ==
  /\ mgr.provider.exists /\ mgr.provider.ws = "open" /\ mgr.provider.logL
  /\ mgr.keepAliveTimer /\ ~mgr.isConnecting
  /\ mgr.reconnectAttempts = 0 /\ mgr.reconnectDelay = 1000
  /\ mgr.closeTimers > 0

\* C33: a failed or timed-out handshake ends connect() in its catch block:
\* connect() returns normally with isConnecting cleared.  A handshake failure,
\* a transport error, and a remote close once its 2 s timer has run, on a
\* manager that is not destroyed and below the attempt cap, leave the backoff
\* timer armed for the next attempt, unless a connect attempt is in progress
\* (then the failure of that attempt arms it).  A remote close heard by the
\* listener of a manager that is not destroyed sets the 2 s timer.
C33_FailureSchedulesReconnect ==
  /\ [][HandshakeFails =>
          /\ ~mgr'.isConnecting /\ mgr'.connectPc = "idle"
          /\ (~mgr.isDestroyed /\ mgr.reconnectAttempts < maxReconnectAttempts
                => /\ mgr'.reconnectArmed
                   /\ mgr'.reconnectFor = mgr.reconnectAttempts + 1)]_vars
  /\ [][/\ WsError \/ ProviderError \/ CloseTimerFires
        /\ ~mgr.isDestroyed
        /\ mgr.reconnectAttempts < maxReconnectAttempts
        => \/ mgr.isConnecting /\ mgr'.isConnecting
           \/ /\ mgr'.reconnectArmed
              /\ mgr'.reconnectFor = mgr.reconnectAttempts + 1]_vars
  /\ [][WsCloses /\ mgr.provider.wsL /\ ~mgr.isDestroyed =>
          mgr'.closeTimers = mgr.closeTimers + 1]_vars

\* A handshake timed out on a transport that never opened: the attempt is
\* over and the backoff timer is armed for a later attempt.
C33_Witness ==
  /\ mgr.provider.exists /\ ~mgr.provider.dead /\ mgr.provider.ws = "connecting"
  /\ ~mgr.provider.logL
  /\ ~mgr.isConnecting /\ mgr.connectPc = "idle" /\ ~mgr.isDestroyed
  /\ mgr.reconnectArmed /\ mgr.reconnectFor >= 2

\* C34: a completed handshake starts the 30 s heartbeat.  While the heartbeat
\* of a manager that is not destroyed runs on an open transport, no connect
\* attempt is in progress and the attempt cap is not reached, so that a tick
\* with more than 90 s since the last activity, or whose ping throws, stops
\* the heartbeat and arms the backoff timer for the next attempt; a tick with
\* at most 90 s of silence whose ping is sent changes nothing.
C34_HeartbeatWatchdog ==
  /\ [](mgr.keepAliveTimer /\ mgr.provider.exists /\ mgr.provider.ws = "open"
        /\ ~mgr.isDestroyed
          => ~mgr.isConnecting /\ mgr.reconnectAttempts < maxReconnectAttempts)
  /\ [][(\E onThrows \in BOOLEAN : HandshakeSucceeds(onThrows)) =>
          mgr'.keepAliveTimer]_vars
  /\ [][\A pingThrows \in BOOLEAN :
          /\ KeepAliveTick(pingThrows)
          /\ mgr.provider.exists /\ mgr.provider.ws = "open" /\ ~mgr.isDestroyed
          => IF pingThrows \/ mgr.age > WatchdogMs
               THEN /\ mgr'.reconnectArmed /\ ~mgr'.keepAliveTimer
                    /\ mgr'.reconnectFor = mgr.reconnectAttempts + 1
               ELSE mgr' = mgr]_vars

\* The watchdog tripped: the transport is still open with its listeners and
\* silent for more than 90 s, the heartbeat is stopped and the backoff timer is
\* armed.
C34_Witness ==
  /\ mgr.provider.exists /\ ~mgr.provider.dead /\ mgr.provider.ws = "open"
  /\ mgr.provider.logL /\ mgr.age > WatchdogMs /\ mgr.age < ActiveWithinMs
  /\ ~mgr.keepAliveTimer /\ mgr.reconnectArmed /\ mgr.reconnectFor = 1
  /\ ~mgr.isDestroyed /\ mgr.closeTimers = 0

\* A restart() call: the health check or the process-level error handlers.
RestartRuns == HealthCheck \/ RestartCalled

\* C35: restart() cancels the pending backoff timer, stops the heartbeat,
\* tears the transport down and resets the attempt counter to 0; when its 3 s
\* timer fires on a manager that is not destroyed, connect() passes its entry
\* test and a connect attempt starts (it is in progress after the step, or it
\* failed in the step when the transport could not be created); on a
\* destroyed manager the timer starts no attempt.
C35_RestartReconnects ==
  /\ [][RestartRuns =>
          /\ ~mgr'.reconnectArmed /\ ~mgr'.reconnectTimer
          /\ ~mgr'.keepAliveTimer
          /\ mgr'.provider.exists => mgr'.provider.dead
          /\ mgr'.reconnectAttempts = 0
          /\ mgr'.restartsAwaiting = mgr.restartsAwaiting + 1]_vars
  /\ [][RestartResumes => mgr'.restartTimers = mgr.restartTimers + 1]_vars
  /\ [][(\E ctorThrows \in BOOLEAN : RestartTimerFires(ctorThrows)) =>
          IF mgr.isDestroyed
            THEN mgr'.isConnecting = mgr.isConnecting /\ mgr'.connectPc = mgr.connectPc
            ELSE /\ ~mgr.isConnecting
                 /\ \/ mgr'.isConnecting
                    \/ mgr'.reconnectAttempts = mgr.reconnectAttempts + 1]_vars

\* A step that arms a backoff timer.
ReconnectScheduled ==
  /\ mgr'.reconnectArmed
  /\ \/ mgr'.reconnectTimers > mgr.reconnectTimers
     \/ mgr'.reconnectFor # mgr.reconnectFor

\* C39: at most one backoff timer is pending, the one this.reconnectTimer
\* refers to; a step that arms a timer while one is pending replaces it, and
\* a timer is armed only by a step that ends with no connect attempt in
\* progress on a manager that is not destroyed.
C39_OneBackoffTimer ==
  /\ [](/\ mgr.reconnectTimers <= 1
        /\ mgr.reconnectArmed <=> mgr.reconnectTimers = 1
        /\ mgr.reconnectArmed => mgr.reconnectTimer)
  /\ [][ReconnectScheduled =>
          /\ mgr'.reconnectTimers = 1
          /\ ~mgr'.isConnecting /\ ~mgr'.isDestroyed
          /\ ~mgr.isDestroyed]_vars

\* A backoff timer was replaced: the pending one is for a third or later
\* attempt while the timer of a remote close is still to fire.
C39_Witness ==
  /\ mgr.reconnectArmed /\ mgr.reconnectTimers = 1 /\ mgr.reconnectFor >= 3
  /\ mgr.closeTimers > 0 /\ ~mgr.isConnecting /\ ~mgr.isDestroyed

\* C36: every fulfilled outcome carries the payload of a fulfilled log, and
\* an intent with a fulfilled and a pruned log under one hash has its
\* fulfilled outcome once the reconciliation of those logs is over.
C36_FulfilledPayload ==
  /\ \A o \in DOMAIN outcomes : o.kind = "fulfilled" => o.payload = "fulfilled"
  /\ \A t \in TxHashes : recon[t].pc = "sendFulfilled" => recon[t].raw.type = "fulfilled"
  /\ \A t \in TxHashes :
       FirstBatchOver(t) =>
         \A i \in IntentHashes :
           (<<i, "fulfilled">> \in seen[t] /\ <<i, "pruned">> \in seen[t]) =>
             \E o \in OutcomesOf(outcomes, t) :
               o.intent = i /\ o.kind = "fulfilled" /\ o.payload = "fulfilled"

\* C37: every hash with an entry in pendingTransactions is in
\* processingScheduled and has its timer pending or its reconciliation in
\* progress.
C37_EntryIsScheduled ==
  \A t \in TxHashes :
    MapHas(pendingTransactions, t) =>
      /\ t \in processingScheduled
      /\ t \in reconTimers \/ Delivering(t)

\* The orchestrator outcomes that a step hands to delivery.
NewOrchestratorOutcomes ==
  {o \in DOMAIN outcomes' :
     /\ o.eventType = "orchestrator"
     /\ outcomes'[o] > (IF o \in DOMAIN outcomes THEN outcomes[o] ELSE 0)}

\* An entry that holds orchestrator payloads only, none with stored details.
NoDetailsFor(txHash) ==
  /\ MapHas(pendingTransactions, txHash)
  /\ \A i \in DOMAIN pendingTransactions[txHash].rawIntents :
       /\ pendingTransactions[txHash].rawIntents[i].eventType = "orchestrator"
       /\ i \notin orchestratorIntentDetails

\* C38: a step hands an orchestrator outcome to delivery only for an intent
\* whose IntentSignaled details are stored at that moment; the reconciliation
\* of an entry whose intents all lack details runs to its end without an
\* outcome and leaves both detail maps as they were.
C38_OrchestratorNeedsDetails ==
  /\ [][\A o \in NewOrchestratorOutcomes :
          o.intent \in orchestratorIntentDetails']_vars
  /\ [][\A t \in TxHashes :
          ReconTimerFires(t) /\ NoDetailsFor(t) =>
            /\ outcomes' = outcomes
            /\ intentDetails' = intentDetails
            /\ orchestratorIntentDetails' = orchestratorIntentDetails
            /\ ~MapHas(pendingTransactions', t)]_vars

\* One reconciliation handed over an outcome for an orchestrator intent with
\* stored details and passed over another intent of the same hash, for which
\* none were stored, before it deleted the entry.
C38_Witness ==
  \E t \in TxHashes, i, j \in IntentHashes :
    /\ i # j /\ fired[t] /\ ~late[t]
    /\ ~MapHas(pendingTransactions, t) /\ recon[t].pc = "idle"
    /\ \E k \in {"fulfilled", "pruned"} : <<j, k>> \in seen[t]
    /\ j \notin orchestratorIntentDetails
    /\ \E o \in OutcomesOf(outcomes, t) : o.intent = i /\ o.eventType = "orchestrator"
    /\ ~\E o \in OutcomesOf(outcomes, t) : o.intent = j

(***************************************************************************)
(* Further claims about the rate caches.                                   *)
(***************************************************************************)
\* C40: a refresh that fails (the fetch or json() throws, the answer is not a
\* success, or it lacks the rates) leaves the cached value and the fetch
\* stamp of both slots as they were.
C40_FailedRefreshKeepsCache ==
  [][\A r \in Readers, answer \in {"noTable", "error"} :
       FetchSettles(r, answer) =>
         rateCache' = rateCache /\ lastFetch' = lastFetch]_vars
====
